---- MODULE Spec2Model ----
(***************************************************************************)
(* Model of the backend of spike_dashboard: the background job manager    *)
(* (src/processing/jobs.py, src/processing/algorithms.py), the dataset     *)
(* store and the window requests of src/api.py.                            *)
(*                                                                         *)
(* Spec is the job manager; StoreSpec and SerialStoreSpec are the dataset  *)
(* store with a loading and a reading request, statement by statement;     *)
(* RequestSpec is one window request (get_spike_data, navigate_spike) or   *)
(* one call of JobResult.filtered_map, applied to inputs drawn from        *)
(* bounded sets.                                                           *)
(*                                                                         *)
(* The job manager.                                                        *)
(* Threads: request threads (Callers) run start_job and cancel_job; the    *)
(* ThreadPoolExecutor's worker threads (Workers) run _execute_job and the  *)
(* done-callback _finalise_job.  Every statement of the source that reads  *)
(* or writes shared state (job fields, the future, the job table) is one   *)
(* step, so every interleaving of the statements is a behaviour.  Taking   *)
(* self._lock is part of the step that follows it: a thread that waits for *)
(* the lock is a thread whose next step is not enabled.                    *)
(* A concurrent.futures.Future is modelled by its state (PENDING, RUNNING,  *)
(* CANCELLED, CANCELLED_AND_NOTIFIED, FINISHED) and the presence of the    *)
(* registered done-callback; Future.cancel() and Future.set_result()       *)
(* invoke the callback in the thread that calls them.  What a data         *)
(* provider or a runner does (return or raise) is chosen when it is called.*)
(* The timestamps created_at / updated_at are not modelled.                *)
(***************************************************************************)
EXTENDS Integers, Sequences, FiniteSets, TLC

\* ---------------------------------------------------------------- bounds
MaxJobs == 2
MaxCancels == 2

\* ------------------------------------------------------- program constants
MaxWorkers == 2

\* One request thread submits jobs while another one cancels them.
Submitters == {"s1"}
Cancellers == {"c1"}
Callers == Submitters \cup Cancellers
WorkerName(i) == "w" \o ToString(i)
Workers == {WorkerName(i) : i \in 1..MaxWorkers}
Threads == Callers \cup Workers
JobIds == 1..MaxJobs

None == "None"
Free == "free"

\* The algorithm registry: name -> [available, runner bound].
\* "filter" is the built-in algorithm, "torchbci-jims" the optional one
\* registered as unavailable, "bare" a spec registered without a runner.
Registry ==
  [filter |-> [available |-> TRUE, runner |-> TRUE],
   jims   |-> [available |-> FALSE, runner |-> FALSE],
   bare   |-> [available |-> TRUE, runner |-> FALSE]]
Registered == DOMAIN Registry
AlgNames == Registered \cup {"nope"}

\* What a call of the caller-supplied data provider, or of the runner, does.
Outcomes == {"returns", "raises"}

\* cancel_job is called with the id of a job, or with an id that is unknown.
UnknownId == 0

DoneStates == {"CANCELLED", "CANCELLED_AND_NOTIFIED", "FINISHED"}
Terminal == {"completed", "failed", "cancelled"}

VARIABLES
  table,      \* ids in self._jobs
  nextId,     \* next fresh job id (uuid4)
  alg,        \* job.algorithm
  status,     \* job.status
  error,      \* job.error
  result,     \* job.result
  jfuture,    \* job._future is set (TRUE) or None (FALSE)
  fstate,     \* state of the job's Future ("NONE" before submit)
  callbacks,  \* the _finalise_job done-callback is registered on the future
  queue,      \* the executor's work queue
  lock,       \* owner of self._lock, or Free
  pc,         \* position of every thread
  loc,        \* locals of every thread
  ret,        \* what the last call of every request thread returned
  ncancel,    \* number of cancel_job calls made
  provCalls,  \* number of data provider calls per job
  runCalls,   \* number of runner calls per job
  execCount,  \* number of _execute_job runs per job
  cancelled,  \* jobs for which a cancel_job call has returned True
  data_array,        \* api.py global: the active buffer, or None
  nrows,             \* api.py global: channel count of the active dataset
  current_dataset,   \* api.py global: name of the active dataset
  spike_times_data   \* api.py global: the precomputed spike source, or None

vars == <<table, nextId, alg, status, error, result, jfuture, fstate,
          callbacks, queue, lock, pc, loc, ret, ncancel, provCalls, runCalls,
          execCount, cancelled, data_array, nrows, current_dataset,
          spike_times_data>>

storeVars == <<data_array, nrows, current_dataset, spike_times_data>>
jobVars == <<alg, status, error, result>>
histVars == <<provCalls, runCalls, execCount, cancelled>>

NoLoc == [job |-> 0, kont |-> None, exc |-> None, seen |-> None]
NoRet == [op |-> None, alg |-> None, job |-> 0, val |-> None, seen |-> None]

\* ======================================================================
\* The dataset store of api.py: the globals data_array, nrows,
\* current_dataset and spike_times_data, written by load_binary_data and
\* load_spike_times and read by extract_data_block.
\* ======================================================================

\* ------------------------------------------------------------ numpy arrays
\* An array is a record: ndim, shape and its rows (the rows of a 2-D array
\* are sequences of samples, those of a 1-D array are the numbers).  None is
\* the record NoArray.
NoArray == [ndim |-> 0]
Array1(xs) == [ndim |-> 1, shape |-> <<Len(xs)>>, rows |-> xs]
Array2(rows, ncols) ==
  [ndim |-> 2, shape |-> <<Len(rows), ncols>>, rows |-> rows]

\* a.T of a 2-D array
Transpose(a) ==
  Array2([c \in 1..a.shape[2] |-> [r \in 1..a.shape[1] |-> a.rows[r][c]]],
         a.shape[1])

\* flat.reshape((-1, n)).T : row r holds the samples r, r + n, r + 2n, ...
ReshapeT(flat, n) ==
  Array2([r \in 1..n |->
            [t \in 1..(Len(flat) \div n) |-> flat[(t - 1) * n + r]]],
         Len(flat) \div n)

\* Python's bounds of the slice [a:b] of a sequence of length n: a negative
\* bound counts from the end, and both are clipped to 0..n.
SliceBound(a, n) ==
  IF a < 0 THEN (IF a + n < 0 THEN 0 ELSE a + n) ELSE (IF a > n THEN n ELSE a)

\* xs[a:b]
PySlice(xs, a, b) ==
  LET lo == SliceBound(a, Len(xs))
      hi == SliceBound(b, Len(xs))
  IN IF lo < hi THEN [k \in 1..(hi - lo) |-> xs[lo + k]] ELSE <<>>

\* -------------------------------------------------------- files on the disk
binary_nrows == 385

\* What torch.load / np.memmap find in the datasets folder.
\*   a.pt    a torch tensor, 2 channels x 3 samples
\*   b.pt    a numpy array stored samples x channels (4 x 3)
\*   m.pt    a dataset with its memory-mapped copy and shape file (2 x 2)
\*   c.bin   interleaved int16 samples of 385 channels, one sample each
\*   v.pt    a tensor with one dimension
\*   u.pt    a container that holds neither a tensor nor an array
\*   x.bin   a binary file whose size is no multiple of 385 values
\*   gone.pt no such file
Files == {"a.pt", "b.pt", "m.pt", "c.bin", "v.pt", "u.pt", "x.bin", "gone.pt"}

FileExists(f) == f # "gone.pt"
FileExt(f) == IF f \in {"c.bin", "x.bin"} THEN ".bin" ELSE ".pt"
HasMmap(f) == f = "m.pt"

\* np.memmap(npy_path, shape=shape) for the shape in the shape file
MmapArray(f) == Array2(<<<<61, 62>>, <<63, 64>>>>, 2)

\* torch.load(dataset_path): the type of the object and, for a tensor or an
\* array, its contents
TorchLoad(f) ==
  CASE f = "a.pt" -> [type |-> "tensor",
                      array |-> Array2(<<<<11, 12, 13>>, <<21, 22, 23>>>>, 3)]
    [] f = "b.pt" -> [type |-> "ndarray",
                      array |-> Array2(<<<<31, 41, 51>>, <<32, 42, 52>>,
                                         <<33, 43, 53>>, <<34, 44, 54>>>>, 3)]
    [] f = "v.pt" -> [type |-> "tensor", array |-> Array1(<<71, 72, 73>>)]
    [] OTHER -> [type |-> "dict", array |-> NoArray]

\* np.memmap(dataset_path, dtype=int16): the flat samples of a binary file
BinaryFlat(f) ==
  IF f = "c.bin" THEN [i \in 1..binary_nrows |-> 1000 + i]
  ELSE <<91, 92, 93>>

\* ------------------------------------------------------------- label files
\* A spike source is a record: type "None", type "ndarray" with its times,
\* or type "dict" with the kind of its keys ("int" or "str") and, for the
\* channels it has a key for, the value (type "ndarray" or "list", times).
NoSpikes == [type |-> "None"]
GlobalSpikes(ts) == [type |-> "ndarray", times |-> ts]
ChannelSpikes(keys, items) == [type |-> "dict", keys |-> keys, items |-> items]

\* dataset_label_mapping: the label file of a dataset, or None
get_label_filename(f) ==
  CASE f = "a.pt" -> "a_labels.pt"
    [] f = "b.pt" -> "b_labels.pt"
    [] f = "c.bin" -> "c_labels.pt"
    [] f = "v.pt" -> "gone_labels.pt"
    [] OTHER -> None

LabelExists(l) == l \in {"a_labels.pt", "b_labels.pt", "c_labels.pt"}

\* torch.load(spike_path): "raises" for a file that cannot be read; else the
\* spike source load_spike_times makes of the object (api.py 210-223: a
\* tensor becomes an array, the tensors in a dict become arrays)
LoadLabels(l) ==
  CASE l = "a_labels.pt" ->
         [raises |-> FALSE, data |-> GlobalSpikes(<<17, 3, 10>>)]
    [] l = "b_labels.pt" ->
         [raises |-> FALSE,
          data |-> ChannelSpikes("int",
                     (1 :> [type |-> "ndarray", times |-> <<3, 10>>]) @@
                     (2 :> [type |-> "ndarray", times |-> <<10>>]))]
    [] OTHER -> [raises |-> TRUE, data |-> NoSpikes]

\* ------------------------------------------------ threads of the data store
Loader == "loader"
Reader == "reader"
StoreThreads == {Loader, Reader}

\* ids a request may name: 0 and -1 are no channel of any dataset
ChannelIds == {-1, 0, 1, 2, 3}
MaxChannels == 2
ChannelLists ==
  UNION {[1..n -> ChannelIds] : n \in 0..MaxChannels}
\* the windows of the extract_data_block calls
ExtractWindows == {<<0, 2>>, <<1, 3>>}

NoCall == [op |-> None]

\* The job manager after construction (jobs.py 91-94): no job, no work.
ManagerInit ==
  /\ table = {}
  /\ nextId = 1
  /\ alg = [j \in JobIds |-> None]
  /\ status = [j \in JobIds |-> None]
  /\ error = [j \in JobIds |-> None]
  /\ result = [j \in JobIds |-> None]
  /\ jfuture = [j \in JobIds |-> FALSE]
  /\ fstate = [j \in JobIds |-> "NONE"]
  /\ callbacks = [j \in JobIds |-> FALSE]
  /\ queue = <<>>
  /\ lock = Free
  /\ ncancel = 0
  /\ provCalls = [j \in JobIds |-> 0]
  /\ runCalls = [j \in JobIds |-> 0]
  /\ execCount = [j \in JobIds |-> 0]
  /\ cancelled = {}

\* The globals of api.py when the module has been imported (api.py 26-29).
ModuleInit ==
  /\ data_array = NoArray
  /\ nrows = 385
  /\ current_dataset = "c46_data_5percent.pt"
  /\ spike_times_data = NoSpikes

Init ==
  /\ ManagerInit
  /\ ModuleInit
  /\ pc = [t \in Threads |-> "idle"]
  /\ loc = [t \in Threads |-> NoLoc]
  /\ ret = [c \in Callers |-> NoRet]

\* ------------------------------------------------------ AlgorithmRegistry
\* ensure_algorithm without the availability test
EnsureAlgorithm_NoAvailabilityTest(name) ==
  IF name \notin Registered THEN "KeyError" ELSE "ok"

\* AlgorithmRegistry.ensure_algorithm: "ok" for the spec, or the error raised.
EnsureAlgorithm(name) ==
  IF name \notin Registered THEN "KeyError"
  ELSE IF ~Registry[name].available THEN "AlgorithmUnavailable"
  ELSE "ok"

\* AlgorithmSpec.run up to the runner call: the error it raises, or "ok".
SpecRun(name) ==
  IF ~Registry[name].available THEN "not available in this environment"
  ELSE IF ~Registry[name].runner THEN "does not define a runner"
  ELSE "ok"

\* ---------------------------------------------------------------- start_job
\* jobs.py 106: start_job(algorithm_name, ...) where ensure_algorithm raises;
\* start_job propagates the error.
StartJobRejected(c, a) ==
  /\ pc[c] = "idle"
  /\ EnsureAlgorithm(a) # "ok"
  /\ ret' = [ret EXCEPT ![c] = [NoRet EXCEPT !.op = "start_job", !.alg = a,
                                             !.val = EnsureAlgorithm(a)]]
  /\ UNCHANGED storeVars
  /\ UNCHANGED <<table, nextId, jobVars, jfuture, fstate, callbacks, queue,
                 lock, pc, loc, ncancel, histVars>>

\* start_job that creates the job as already running
StartJobInsert_CreatedRunning(c, a) ==
  /\ pc[c] = "idle"
  /\ EnsureAlgorithm(a) = "ok"
  /\ nextId <= MaxJobs
  /\ lock = Free
  /\ LET j == nextId IN
       /\ nextId' = nextId + 1
       /\ alg' = [alg EXCEPT ![j] = a]
       /\ status' = [status EXCEPT ![j] = "running"]
       /\ table' = table \cup {j}
       /\ loc' = [loc EXCEPT ![c] = [NoLoc EXCEPT !.job = j]]
  /\ pc' = [pc EXCEPT ![c] = "L129"]
  /\ ret' = [ret EXCEPT ![c] = NoRet]
  /\ UNCHANGED storeVars
  /\ UNCHANGED <<error, result, jfuture, fstate, callbacks, queue, lock,
                 ncancel, histVars>>

\* jobs.py 106-127: start_job(algorithm_name, data_provider) creates the job
\* object with status "queued" and, under self._lock, puts it in the table.
StartJobInsert(c, a) ==
  /\ pc[c] = "idle"
  /\ EnsureAlgorithm(a) = "ok"
  /\ nextId <= MaxJobs
  /\ lock = Free
  /\ LET j == nextId IN
       /\ nextId' = nextId + 1
       /\ alg' = [alg EXCEPT ![j] = a]
       /\ status' = [status EXCEPT ![j] = "queued"]
       /\ table' = table \cup {j}
       /\ loc' = [loc EXCEPT ![c] = [NoLoc EXCEPT !.job = j]]
  /\ pc' = [pc EXCEPT ![c] = "L129"]
  /\ ret' = [ret EXCEPT ![c] = NoRet]
  /\ UNCHANGED storeVars
  /\ UNCHANGED <<error, result, jfuture, fstate, callbacks, queue, lock,
                 ncancel, histVars>>

\* start_job that submits the job to the pool twice
StartJobSubmit_Twice(c) ==
  /\ pc[c] = "L129"
  /\ fstate' = [fstate EXCEPT ![loc[c].job] = "PENDING"]
  /\ queue' = Append(Append(queue, loc[c].job), loc[c].job)
  /\ pc' = [pc EXCEPT ![c] = "L130"]
  /\ UNCHANGED storeVars
  /\ UNCHANGED <<table, nextId, jobVars, jfuture, callbacks, lock,
                 loc, ret, ncancel, histVars>>

\* jobs.py 129: future = self._executor.submit(self._execute_job, ...)
StartJobSubmit(c) ==
  /\ pc[c] = "L129"
  /\ fstate' = [fstate EXCEPT ![loc[c].job] = "PENDING"]
  /\ queue' = Append(queue, loc[c].job)
  /\ pc' = [pc EXCEPT ![c] = "L130"]
  /\ UNCHANGED storeVars
  /\ UNCHANGED <<table, nextId, jobVars, jfuture, callbacks, lock,
                 loc, ret, ncancel, histVars>>

\* jobs.py 130: job._future = future
StartJobSetFuture(c) ==
  /\ pc[c] = "L130"
  /\ jfuture' = [jfuture EXCEPT ![loc[c].job] = TRUE]
  /\ pc' = [pc EXCEPT ![c] = "L131"]
  /\ UNCHANGED storeVars
  /\ UNCHANGED <<table, nextId, jobVars, fstate, callbacks, queue, lock,
                 loc, ret, ncancel, histVars>>

\* jobs.py 131: future.add_done_callback(...): registered on a future that is
\* not done, called at once in this thread on a future that is done.
StartJobAddCallback(c) ==
  /\ pc[c] = "L131"
  /\ IF fstate[loc[c].job] \in DoneStates
       THEN /\ pc' = [pc EXCEPT ![c] = "L165"]
            /\ loc' = [loc EXCEPT ![c].kont = "L132"]
            /\ UNCHANGED callbacks
       ELSE /\ callbacks' = [callbacks EXCEPT ![loc[c].job] = TRUE]
            /\ pc' = [pc EXCEPT ![c] = "L132"]
            /\ UNCHANGED loc
  /\ UNCHANGED storeVars
  /\ UNCHANGED <<table, nextId, jobVars, jfuture, fstate, queue, lock,
                 ret, ncancel, histVars>>

\* jobs.py 132: return job; the caller sees the job's status as it is now.
StartJobReturn(c) ==
  /\ pc[c] = "L132"
  /\ ret' = [ret EXCEPT ![c] = [NoRet EXCEPT !.op = "start_job",
                                             !.job = loc[c].job,
                                             !.val = status[loc[c].job]]]
  /\ pc' = [pc EXCEPT ![c] = "idle"]
  /\ loc' = [loc EXCEPT ![c] = NoLoc]
  /\ UNCHANGED storeVars
  /\ UNCHANGED <<table, nextId, jobVars, jfuture, fstate, callbacks, queue,
                 lock, ncancel, histVars>>

\* ------------------------------------------------------------ _finalise_job
\* jobs.py 164-171: with self._lock (the lock is not reentrant, so the
\* callback waits while any thread, this one included, holds it): drop the
\* reference to a done future, release the lock and return to the code that
\* invoked the callback.
FinaliseJob(t) ==
  /\ pc[t] = "L165"
  /\ lock = Free
  /\ LET j == loc[t].job IN
       jfuture' = IF j \in table /\ jfuture[j] /\ fstate[j] \in DoneStates
                    THEN [jfuture EXCEPT ![j] = FALSE]
                    ELSE jfuture
  /\ IF t \in Workers
       THEN /\ pc' = [pc EXCEPT ![t] = "idle"]
            /\ loc' = [loc EXCEPT ![t] = NoLoc]
       ELSE /\ pc' = [pc EXCEPT ![t] = loc[t].kont]
            /\ loc' = [loc EXCEPT ![t].kont = None]
  /\ UNCHANGED storeVars
  /\ UNCHANGED <<table, nextId, jobVars, fstate, callbacks, queue, lock,
                 ret, ncancel, histVars>>

\* --------------------------------------------------------------- cancel_job
\* cancel_job returns v and releases the lock
CancelReturn(c, j, v, seen) ==
  /\ ret' = [ret EXCEPT ![c] = [NoRet EXCEPT !.op = "cancel_job", !.job = j,
                                             !.val = v, !.seen = seen]]
  /\ lock' = Free
  /\ pc' = [pc EXCEPT ![c] = "idle"]
  /\ loc' = [loc EXCEPT ![c] = NoLoc]

\* cancel_job whose test at line 184 refuses completed jobs only
CancelCheck_FailedNotRefused(c, j) ==
  /\ pc[c] = "idle"
  /\ ncancel < MaxCancels
  /\ j < nextId
  /\ lock = Free
  /\ ncancel' = ncancel + 1
  /\ IF j \notin table
       THEN CancelReturn(c, j, FALSE, "unknown")
     ELSE IF status[j] \in {"completed"}
       THEN CancelReturn(c, j, FALSE, status[j])
     ELSE /\ pc' = [pc EXCEPT ![c] = "L186"]
          /\ loc' = [loc EXCEPT ![c] = [NoLoc EXCEPT !.job = j,
                                                     !.seen = status[j]]]
          /\ lock' = c
          /\ ret' = [ret EXCEPT ![c] = NoRet]
  /\ UNCHANGED storeVars
  /\ UNCHANGED <<table, nextId, jobVars, jfuture, fstate, callbacks, queue,
                 histVars>>

\* jobs.py 181-185: cancel_job(job_id) takes self._lock; unknown, completed
\* and failed jobs are refused
CancelCheck(c, j) ==
  /\ pc[c] = "idle"
  /\ ncancel < MaxCancels
  /\ j < nextId
  /\ lock = Free
  /\ ncancel' = ncancel + 1
  /\ IF j \notin table
       THEN CancelReturn(c, j, FALSE, "unknown")
     ELSE IF status[j] \in {"completed", "failed"}
       THEN CancelReturn(c, j, FALSE, status[j])
     ELSE /\ pc' = [pc EXCEPT ![c] = "L186"]
          /\ loc' = [loc EXCEPT ![c] = [NoLoc EXCEPT !.job = j,
                                                     !.seen = status[j]]]
          /\ lock' = c
          /\ ret' = [ret EXCEPT ![c] = NoRet]
  /\ UNCHANGED storeVars
  /\ UNCHANGED <<table, nextId, jobVars, jfuture, fstate, callbacks, queue,
                 histVars>>

\* jobs.py 186: if job._future and not job._future.done()
CancelTestFuture(c) ==
  /\ pc[c] = "L186"
  /\ LET j == loc[c].job IN
       pc' = [pc EXCEPT ![c] =
                IF jfuture[j] /\ fstate[j] \notin DoneStates
                  THEN "L187" ELSE "L192"]
  /\ UNCHANGED storeVars
  /\ UNCHANGED <<table, nextId, jobVars, jfuture, fstate, callbacks, queue,
                 lock, loc, ret, ncancel, histVars>>

\* jobs.py 187: cancelled = job._future.cancel().  Future.cancel() refuses a
\* running or finished future (cancel_job then returns False, line 191); it
\* cancels a pending one and then invokes the done-callbacks in the calling
\* thread, which still holds self._lock.
CancelFuture(c) ==
  /\ pc[c] = "L187"
  /\ LET j == loc[c].job IN
       IF fstate[j] \in {"RUNNING", "FINISHED"}
         THEN /\ CancelReturn(c, j, FALSE, loc[c].seen)
              /\ UNCHANGED fstate
       ELSE IF fstate[j] \in {"CANCELLED", "CANCELLED_AND_NOTIFIED"}
         THEN /\ pc' = [pc EXCEPT ![c] = "L189"]
              /\ UNCHANGED <<fstate, lock, loc, ret>>
       ELSE /\ fstate' = [fstate EXCEPT ![j] = "CANCELLED"]
            /\ IF callbacks[j]
                 THEN /\ pc' = [pc EXCEPT ![c] = "L165"]
                      /\ loc' = [loc EXCEPT ![c].kont = "L189"]
                 ELSE /\ pc' = [pc EXCEPT ![c] = "L189"]
                      /\ UNCHANGED loc
            /\ UNCHANGED <<lock, ret>>
  /\ UNCHANGED storeVars
  /\ UNCHANGED <<table, nextId, jobVars, jfuture, callbacks, queue,
                 ncancel, histVars>>

\* jobs.py 188-191: the future was cancelled: job.status = "cancelled",
\* return True
CancelMark(c) ==
  /\ pc[c] = "L189"
  /\ status' = [status EXCEPT ![loc[c].job] = "cancelled"]
  /\ CancelReturn(c, loc[c].job, TRUE, loc[c].seen)
  /\ cancelled' = cancelled \cup {loc[c].job}
  /\ UNCHANGED storeVars
  /\ UNCHANGED <<table, nextId, alg, error, result, jfuture, fstate,
                 callbacks, queue, ncancel, provCalls, runCalls, execCount>>

\* jobs.py 192-194: no future, or a future that is done:
\* job.status = "cancelled", return True
CancelMarkNoFuture(c) ==
  /\ pc[c] = "L192"
  /\ status' = [status EXCEPT ![loc[c].job] = "cancelled"]
  /\ CancelReturn(c, loc[c].job, TRUE, loc[c].seen)
  /\ cancelled' = cancelled \cup {loc[c].job}
  /\ UNCHANGED storeVars
  /\ UNCHANGED <<table, nextId, alg, error, result, jfuture, fstate,
                 callbacks, queue, ncancel, provCalls, runCalls, execCount>>

\* ------------------------------------------------------------- worker pool
\* The pool's worker threads are interchangeable: the next work item goes to
\* the first worker that is idle.
FirstIdle(w) ==
  /\ pc[w] = "idle"
  /\ \A i \in 1..MaxWorkers :
       WorkerName(i) = w => \A k \in 1..(i - 1) : pc[WorkerName(k)] # "idle"

\* A worker takes the next work item; an item whose future was cancelled is
\* dropped (Future.set_running_or_notify_cancel() is false).
WorkerSkip(w) ==
  /\ FirstIdle(w)
  /\ queue # <<>>
  /\ fstate[Head(queue)] = "CANCELLED"
  /\ fstate' = [fstate EXCEPT ![Head(queue)] = "CANCELLED_AND_NOTIFIED"]
  /\ queue' = Tail(queue)
  /\ UNCHANGED storeVars
  /\ UNCHANGED <<table, nextId, jobVars, jfuture, callbacks, lock, pc, loc,
                 ret, ncancel, histVars>>

\* A worker takes the next work item and starts _execute_job on it.
WorkerPickUp(w) ==
  /\ FirstIdle(w)
  /\ queue # <<>>
  /\ fstate[Head(queue)] # "CANCELLED"
  /\ LET j == Head(queue) IN
       /\ fstate' = [fstate EXCEPT ![j] = "RUNNING"]
       /\ loc' = [loc EXCEPT ![w] = [NoLoc EXCEPT !.job = j]]
       /\ execCount' = [execCount EXCEPT ![j] = @ + 1]
  /\ queue' = Tail(queue)
  /\ pc' = [pc EXCEPT ![w] = "L140"]
  /\ UNCHANGED storeVars
  /\ UNCHANGED <<table, nextId, jobVars, jfuture, callbacks, lock, ret,
                 ncancel, provCalls, runCalls, cancelled>>

\* _execute_job that takes self._lock for the whole execution
ExecRunning_UnderLock(w) ==
  /\ pc[w] = "L140"
  /\ lock = Free
  /\ lock' = w
  /\ status' = [status EXCEPT ![loc[w].job] = "running"]
  /\ pc' = [pc EXCEPT ![w] = "L143"]
  /\ UNCHANGED storeVars
  /\ UNCHANGED <<table, nextId, alg, error, result, jfuture, fstate,
                 callbacks, queue, loc, ret, ncancel, histVars>>

\* jobs.py 140: job.status = "running"
ExecRunning(w) ==
  /\ pc[w] = "L140"
  /\ status' = [status EXCEPT ![loc[w].job] = "running"]
  /\ pc' = [pc EXCEPT ![w] = "L143"]
  /\ UNCHANGED storeVars
  /\ UNCHANGED <<table, nextId, alg, error, result, jfuture, fstate,
                 callbacks, queue, lock, loc, ret, ncancel, histVars>>

\* jobs.py 143: channels, block = data_provider(), which returns or raises
ExecProvider(w, outcome) ==
  /\ pc[w] = "L143"
  /\ provCalls' = [provCalls EXCEPT ![loc[w].job] = @ + 1]
  /\ IF outcome = "raises"
       THEN /\ pc' = [pc EXCEPT ![w] = "L159"]
            /\ loc' = [loc EXCEPT ![w].exc = "provider error"]
       ELSE /\ pc' = [pc EXCEPT ![w] = "L144"]
            /\ UNCHANGED loc
  /\ UNCHANGED storeVars
  /\ UNCHANGED <<table, nextId, jobVars, jfuture, fstate, callbacks, queue,
                 lock, ret, ncancel, runCalls, execCount, cancelled>>

\* jobs.py 144: result = spec.run(block.copy(), job.params); spec.run raises
\* AlgorithmUnavailable, or calls the runner, which returns or raises
ExecRun(w, outcome) ==
  /\ pc[w] = "L144"
  /\ LET j == loc[w].job IN
       IF SpecRun(alg[j]) # "ok"
         THEN /\ pc' = [pc EXCEPT ![w] = "L156"]
              /\ loc' = [loc EXCEPT ![w].exc = SpecRun(alg[j])]
              /\ UNCHANGED runCalls
       ELSE /\ runCalls' = [runCalls EXCEPT ![j] = @ + 1]
            /\ IF outcome = "raises"
                 THEN /\ pc' = [pc EXCEPT ![w] = "L159"]
                      /\ loc' = [loc EXCEPT ![w].exc = "runner error"]
                 ELSE /\ pc' = [pc EXCEPT ![w] = "L145"]
                      /\ UNCHANGED loc
  /\ UNCHANGED storeVars
  /\ UNCHANGED <<table, nextId, jobVars, jfuture, fstate, callbacks, queue,
                 lock, ret, ncancel, provCalls, execCount, cancelled>>

\* jobs.py 145-153: job.result = JobResult(...)
ExecStoreResult(w) ==
  /\ pc[w] = "L145"
  /\ result' = [result EXCEPT ![loc[w].job] = "JobResult"]
  /\ pc' = [pc EXCEPT ![w] = "L154"]
  /\ UNCHANGED storeVars
  /\ UNCHANGED <<table, nextId, alg, status, error, jfuture, fstate,
                 callbacks, queue, lock, loc, ret, ncancel, histVars>>

\* jobs.py 154: job.status = "completed"
ExecCompleted(w) ==
  /\ pc[w] = "L154"
  /\ status' = [status EXCEPT ![loc[w].job] = "completed"]
  /\ pc' = [pc EXCEPT ![w] = "L162"]
  /\ UNCHANGED storeVars
  /\ UNCHANGED <<table, nextId, alg, error, result, jfuture, fstate,
                 callbacks, queue, lock, loc, ret, ncancel, histVars>>

\* jobs.py 156 and 159: job.status = "failed"
ExecFailed(w) ==
  /\ pc[w] \in {"L156", "L159"}
  /\ status' = [status EXCEPT ![loc[w].job] = "failed"]
  /\ pc' = [pc EXCEPT ![w] = IF pc[w] = "L156" THEN "L157" ELSE "L160"]
  /\ UNCHANGED storeVars
  /\ UNCHANGED <<table, nextId, alg, error, result, jfuture, fstate,
                 callbacks, queue, lock, loc, ret, ncancel, histVars>>

\* jobs.py 157 and 160: job.error = str(exc)
ExecError(w) ==
  /\ pc[w] \in {"L157", "L160"}
  /\ error' = [error EXCEPT ![loc[w].job] = loc[w].exc]
  /\ pc' = [pc EXCEPT ![w] = "L162"]
  /\ UNCHANGED storeVars
  /\ UNCHANGED <<table, nextId, alg, status, result, jfuture, fstate,
                 callbacks, queue, lock, loc, ret, ncancel, histVars>>

\* _execute_job returns (jobs.py 162): the pool finishes the future and
\* invokes the registered done-callback in the worker thread.
ExecReturn(w) ==
  /\ pc[w] = "L162"
  /\ fstate' = [fstate EXCEPT ![loc[w].job] = "FINISHED"]
  /\ IF callbacks[loc[w].job]
       THEN /\ pc' = [pc EXCEPT ![w] = "L165"]
            /\ loc' = [loc EXCEPT ![w].exc = None]
       ELSE /\ pc' = [pc EXCEPT ![w] = "idle"]
            /\ loc' = [loc EXCEPT ![w] = NoLoc]
  /\ UNCHANGED storeVars
  /\ UNCHANGED <<table, nextId, jobVars, jfuture, callbacks, queue, lock,
                 ret, ncancel, histVars>>

\* ------------------------------------------------------------ specification
\* The steps of a call that is under way in request thread c
CallerStep(c) ==
  \/ StartJobSubmit(c) \/ StartJobSetFuture(c) \/ StartJobAddCallback(c)
  \/ StartJobReturn(c) \/ CancelTestFuture(c) \/ CancelFuture(c)
  \/ CancelMark(c) \/ CancelMarkNoFuture(c) \/ FinaliseJob(c)

\* The steps of pool worker w
WorkerStep(w) ==
  \/ WorkerSkip(w) \/ WorkerPickUp(w) \/ ExecRunning(w)
  \/ \E o \in Outcomes : ExecProvider(w, o)
  \/ \E o \in Outcomes : ExecRun(w, o)
  \/ ExecStoreResult(w) \/ ExecCompleted(w) \/ ExecFailed(w)
  \/ ExecError(w) \/ ExecReturn(w) \/ FinaliseJob(w)

Next ==
  \/ \E c \in Submitters, a \in AlgNames : StartJobRejected(c, a)
  \/ \E c \in Submitters, a \in AlgNames : StartJobInsert(c, a)
  \/ \E c \in Cancellers, j \in JobIds \cup {UnknownId} : CancelCheck(c, j)
  \/ \E c \in Callers : CallerStep(c)
  \/ \E w \in Workers : WorkerStep(w)

Spec == Init /\ [][Next]_vars

TypeOK ==
  /\ table \subseteq JobIds
  /\ nextId \in 1..(MaxJobs + 1)
  /\ \A j \in JobIds : status[j] \in {None, "queued", "running"} \cup Terminal
  /\ lock \in Threads \cup {Free}

\* ------------------------------------------------------------------ helpers
\* Worker w is inside _execute_job for job j.
Executing(w, j) ==
  /\ loc[w].job = j
  /\ pc[w] \in {"L140", "L143", "L144", "L145", "L154", "L156", "L157",
                "L159", "L160", "L162"}

\* Every thread has run as far as it can: no call that is under way and no
\* worker can take another step.
Quiescent ==
  /\ \A c \in Callers : ~ENABLED CallerStep(c)
  /\ \A w \in Workers : ~ENABLED WorkerStep(w)


\* The variables of the job manager, which the data store never touches.
managerVars == <<table, nextId, alg, status, error, result, jfuture, fstate,
                 callbacks, queue, lock, ncancel, provCalls, runCalls,
                 execCount, cancelled>>

\* The data store when the module has been imported and no request runs.
StoreInit ==
  /\ ManagerInit
  /\ ModuleInit
  /\ pc = [t \in StoreThreads |-> "idle"]
  /\ loc = [t \in StoreThreads |-> NoCall]
  /\ ret = [t \in StoreThreads |-> NoCall]

\* --------------------------------------------------------- load_binary_data
\* load_binary_data(f) returns v: "None", or "data_array" after a load;
\* before is the store as the call found it
LoadReturn(t, f, v, seen, before) ==
  /\ ret' = [ret EXCEPT ![t] = [op |-> "load_binary_data", filename |-> f,
                                val |-> v, seen |-> seen,
                                before |-> before]]
  /\ pc' = [pc EXCEPT ![t] = "idle"]
  /\ loc' = [loc EXCEPT ![t] = NoCall]

\* load_binary_data goes on at the line l that assigns to data_array
LoadGoto(t, f, l) ==
  /\ pc' = [pc EXCEPT ![t] = l]
  /\ loc' = [loc EXCEPT ![t] = [op |-> "load_binary_data", filename |-> f,
                                seen |-> spike_times_data,
                                before |-> storeVars]]
  /\ ret' = [ret EXCEPT ![t] = NoCall]

\* api.py 236-260, 267-280, 297-300 and 312-316: load_binary_data(filename)
\* up to its first assignment.  It returns None for a file that does not
\* exist, for a .pt file that holds neither a tensor nor an array, and when
\* reading raises (a binary file that cannot be reshaped to 385 rows).
LoadBinaryData(t, f) ==
  /\ pc[t] = "idle"
  /\ IF ~FileExists(f)
       THEN LoadReturn(t, f, "None", spike_times_data, storeVars)
     ELSE IF FileExt(f) = ".pt" /\ HasMmap(f)
       THEN LoadGoto(t, f, "L261")
     ELSE IF FileExt(f) = ".pt"
       THEN IF TorchLoad(f).type \in {"tensor", "ndarray"}
              THEN LoadGoto(t, f, "L275")
              ELSE LoadReturn(t, f, "None", spike_times_data, storeVars)
     ELSE IF Len(BinaryFlat(f)) % binary_nrows # 0
       THEN LoadReturn(t, f, "None", spike_times_data, storeVars)
     ELSE LoadGoto(t, f, "L301")
  /\ UNCHANGED managerVars
  /\ UNCHANGED storeVars

\* api.py 261, 275/277 and 301: data_array = the mapped array, the loaded
\* tensor or array as it is stored, or the reshaped and transposed samples
LoadAssignArray(t) ==
  /\ pc[t] \in {"L261", "L275", "L301"}
  /\ data_array' =
       CASE pc[t] = "L261" -> MmapArray(loc[t].filename)
         [] pc[t] = "L275" -> TorchLoad(loc[t].filename).array
         [] pc[t] = "L301" -> ReshapeT(BinaryFlat(loc[t].filename),
                                       binary_nrows)
  /\ pc' = [pc EXCEPT ![t] = CASE pc[t] = "L261" -> "L262"
                               [] pc[t] = "L275" -> "L282"
                               [] pc[t] = "L301" -> "L303"]
  /\ UNCHANGED <<nrows, current_dataset, spike_times_data, loc, ret>>
  /\ UNCHANGED managerVars

\* api.py 282-288: a 2-D array with more rows than columns is transposed;
\* an array that is not 2-D makes load_binary_data return None
LoadOrient(t) ==
  /\ pc[t] = "L282"
  /\ IF data_array.ndim = 2
       THEN /\ data_array' = IF data_array.shape[1] > data_array.shape[2]
                               THEN Transpose(data_array) ELSE data_array
            /\ pc' = [pc EXCEPT ![t] = "L290"]
            /\ UNCHANGED <<loc, ret>>
       ELSE /\ LoadReturn(t, loc[t].filename, "None", loc[t].seen,
                            loc[t].before)
            /\ UNCHANGED data_array
  /\ UNCHANGED <<nrows, current_dataset, spike_times_data>>
  /\ UNCHANGED managerVars

\* api.py 262, 290 and 303: nrows = data_array.shape[0], or binary_nrows
LoadSetNrows(t) ==
  /\ pc[t] \in {"L262", "L290", "L303"}
  /\ nrows' = IF pc[t] = "L303" THEN binary_nrows ELSE data_array.shape[1]
  /\ pc' = [pc EXCEPT ![t] = CASE pc[t] = "L262" -> "L263"
                               [] pc[t] = "L290" -> "L291"
                               [] pc[t] = "L303" -> "L304"]
  /\ UNCHANGED <<data_array, current_dataset, spike_times_data, loc, ret>>
  /\ UNCHANGED managerVars

\* api.py 263, 291 and 304: current_dataset = filename; load_spike_times is
\* called next (294, 308)
LoadSetCurrent(t) ==
  /\ pc[t] \in {"L263", "L291", "L304"}
  /\ current_dataset' = loc[t].filename
  /\ pc' = [pc EXCEPT ![t] = "L186"]
  /\ UNCHANGED <<data_array, nrows, spike_times_data, loc, ret>>
  /\ UNCHANGED managerVars

\* load_spike_times that keeps the source it finds
LoadSpikeTimesReset_KeepsSource(t) ==
  /\ pc[t] = "L186"
  /\ LET l == get_label_filename(loc[t].filename) IN
       IF l = None \/ ~LabelExists(l)
         THEN LoadReturn(t, loc[t].filename, "data_array", loc[t].seen,
                            loc[t].before)
         ELSE /\ pc' = [pc EXCEPT ![t] = "L207"]
              /\ UNCHANGED <<loc, ret>>
  /\ UNCHANGED <<data_array, nrows, current_dataset, spike_times_data>>
  /\ UNCHANGED managerVars

\* api.py 186-203: load_spike_times(filename) sets spike_times_data = None;
\* without a mapped label file that exists it returns, and load_binary_data
\* returns data_array (296, 310)
LoadSpikeTimesReset(t) ==
  /\ pc[t] = "L186"
  /\ spike_times_data' = NoSpikes
  /\ LET l == get_label_filename(loc[t].filename) IN
       IF l = None \/ ~LabelExists(l)
         THEN LoadReturn(t, loc[t].filename, "data_array", loc[t].seen,
                            loc[t].before)
         ELSE /\ pc' = [pc EXCEPT ![t] = "L207"]
              /\ UNCHANGED <<loc, ret>>
  /\ UNCHANGED <<data_array, nrows, current_dataset>>
  /\ UNCHANGED managerVars

\* api.py 205-234: the label file is read and spike_times_data assigned; a
\* file that cannot be read leaves spike_times_data = None.  load_binary_data
\* then returns data_array.
LoadSpikeTimes(t) ==
  /\ pc[t] = "L207"
  /\ LET l == LoadLabels(get_label_filename(loc[t].filename)) IN
       spike_times_data' = IF l.raises THEN NoSpikes ELSE l.data
  /\ LoadReturn(t, loc[t].filename, "data_array", loc[t].seen,
                            loc[t].before)
  /\ UNCHANGED <<data_array, nrows, current_dataset>>
  /\ UNCHANGED managerVars

\* ------------------------------------------------------- extract_data_block
\* What extract_data_block gives back: the exception it raises, or the valid
\* channels and the block
Raised(e) == [raised |-> e, valid_channels |-> <<>>, block |-> NoArray]
Returned(v, b) == [raised |-> None, valid_channels |-> v, block |-> b]

\* api.py 336-339: np.zeros((0, width)) without blocks, else np.stack(blocks),
\* which raises for rows of different lengths
Stack(valid, blocks, start, end) ==
  IF blocks = <<>>
    THEN Returned(valid, Array2(<<>>, IF end > start THEN end - start ELSE 0))
  ELSE IF \E k \in 1..Len(blocks) : Len(blocks[k]) # Len(blocks[1])
    THEN Raised("ValueError: stack")
  ELSE Returned(valid, Array2(blocks, Len(blocks[1])))

ExtractReturn(t, channels, start, end, val) ==
  /\ ret' = [ret EXCEPT ![t] = [op |-> "extract_data_block",
                                channels |-> channels, start |-> start,
                                end |-> end, val |-> val]]
  /\ pc' = [pc EXCEPT ![t] = "idle"]
  /\ loc' = [loc EXCEPT ![t] = NoCall]

\* The loop of api.py 330-334 goes on with the next channel, or ends and
\* extract_data_block returns
ExtractNext(t, valid, blocks) ==
  IF loc[t].i = Len(loc[t].channels)
    THEN ExtractReturn(t, loc[t].channels, loc[t].start, loc[t].end,
                       Stack(valid, blocks, loc[t].start, loc[t].end))
    ELSE /\ loc' = [loc EXCEPT ![t].i = @ + 1, ![t].valid_channels = valid,
                               ![t].blocks = blocks]
         /\ pc' = [pc EXCEPT ![t] = "L332"]
         /\ UNCHANGED ret

\* api.py 322-329: extract_data_block(channels, start_time, end_time) raises
\* ValueError when data_array is None
ExtractDataBlock(t, channels, start, end) ==
  /\ pc[t] = "idle"
  /\ IF data_array = NoArray
       THEN ExtractReturn(t, channels, start, end,
                          Raised("ValueError: Data not loaded"))
     ELSE IF channels = <<>>
       THEN ExtractReturn(t, channels, start, end,
                          Stack(<<>>, <<>>, start, end))
     ELSE /\ pc' = [pc EXCEPT ![t] = "L332"]
          /\ loc' = [loc EXCEPT ![t] =
                       [op |-> "extract_data_block", channels |-> channels,
                        start |-> start, end |-> end, i |-> 1,
                        valid_channels |-> <<>>, blocks |-> <<>>]]
          /\ ret' = [ret EXCEPT ![t] = NoCall]
  /\ UNCHANGED managerVars
  /\ UNCHANGED storeVars

\* extract_data_block that takes channel ids from 0
ExtractTestChannel_FromZero(t) ==
  /\ pc[t] = "L332"
  /\ LET array_index == loc[t].channels[loc[t].i] IN
       IF 0 <= array_index /\ array_index < data_array.shape[1]
         THEN /\ pc' = [pc EXCEPT ![t] = "L334"]
              /\ loc' = [loc EXCEPT ![t].valid_channels =
                           Append(@, loc[t].channels[loc[t].i])]
              /\ UNCHANGED ret
         ELSE ExtractNext(t, loc[t].valid_channels, loc[t].blocks)
  /\ UNCHANGED managerVars
  /\ UNCHANGED storeVars

\* api.py 331-333: array_index = channel_id - 1; a channel id whose index is
\* a row of data_array (read now) is valid
ExtractTestChannel(t) ==
  /\ pc[t] = "L332"
  /\ LET array_index == loc[t].channels[loc[t].i] - 1 IN
       IF 0 <= array_index /\ array_index < data_array.shape[1]
         THEN /\ pc' = [pc EXCEPT ![t] = "L334"]
              /\ loc' = [loc EXCEPT ![t].valid_channels =
                           Append(@, loc[t].channels[loc[t].i])]
              /\ UNCHANGED ret
         ELSE ExtractNext(t, loc[t].valid_channels, loc[t].blocks)
  /\ UNCHANGED managerVars
  /\ UNCHANGED storeVars

\* api.py 334: data_array[array_index, start_time:end_time], read from the
\* array data_array names now; it raises IndexError for an array that is
\* not 2-D or has no such row
ExtractReadRow(t) ==
  /\ pc[t] = "L334"
  /\ LET array_index == loc[t].channels[loc[t].i] - 1 IN
       IF data_array.ndim # 2 \/ array_index >= data_array.shape[1]
         THEN ExtractReturn(t, loc[t].channels, loc[t].start, loc[t].end,
                            Raised("IndexError"))
         ELSE ExtractNext(t, loc[t].valid_channels,
                          Append(loc[t].blocks,
                                 PySlice(data_array.rows[array_index + 1],
                                         loc[t].start, loc[t].end)))
  /\ UNCHANGED managerVars
  /\ UNCHANGED storeVars

\* ------------------------------------------------- the store's specifications
LoaderStep(t) ==
  \/ LoadAssignArray(t) \/ LoadOrient(t) \/ LoadSetNrows(t)
  \/ LoadSetCurrent(t) \/ LoadSpikeTimesReset(t) \/ LoadSpikeTimes(t)

ReaderStep(t) == ExtractTestChannel(t) \/ ExtractReadRow(t)

LoaderNext == (\E f \in Files : LoadBinaryData(Loader, f)) \/ LoaderStep(Loader)

ReaderNext ==
  \/ \E ch \in ChannelLists, w \in ExtractWindows :
       ExtractDataBlock(Reader, ch, w[1], w[2])
  \/ ReaderStep(Reader)

\* A request thread loads datasets while another one extracts blocks.
StoreNext == LoaderNext \/ ReaderNext

StoreSpec == StoreInit /\ [][StoreNext]_vars

\* The same calls, one at a time.
SerialNext ==
  \/ pc[Reader] = "idle" /\ LoaderNext
  \/ pc[Loader] = "idle" /\ ReaderNext

SerialStoreSpec == StoreInit /\ [][SerialNext]_vars

\* ======================================================================
\* Window requests of api.py: get_spike_data with _get_real_data and
\* get_precomputed_spike_data, navigate_spike, and JobResult.filtered_map.
\* These read the store and the job table and write nothing: each is one
\* step of the request thread, applied to the request in its locals.
\* ======================================================================

\* ------------------------------------------------------------------ numbers
\* A float is the integer FScale times its value, so that the filtered
\* values and the means of up to four samples are exact.
FScale == 12

\* np.round(x).astype(int): to the nearest integer, halves to the even one
RoundAll(xs) ==
  LET Round(x) ==
        LET f == x \div FScale
            r == x - f * FScale
        IN IF 2 * r < FScale THEN f
           ELSE IF 2 * r > FScale THEN f + 1
           ELSE IF f % 2 = 0 THEN f ELSE f + 1
  IN [k \in 1..Len(xs) |-> Round(xs[k])]

\* np.mean of integer samples, as a float (of no use for no samples, where
\* numpy gives nan: every sequence it is added to is empty then)
Mean(xs) ==
  LET RECURSIVE Sum(_)
      Sum(ys) == IF ys = <<>> THEN 0 ELSE Head(ys) + Sum(Tail(ys))
  IN IF xs = <<>> THEN 0 ELSE (Sum(xs) * FScale) \div Len(xs)

\* -xs: for the int16 samples of the buffer the least int16 has no
\* negative and stays; the floats and the rounded values have theirs
Negate(xs, int16) ==
  [k \in 1..Len(xs) |-> IF int16 /\ xs[k] = -32768 THEN -32768 ELSE -xs[k]]

\* int(np.argmax(xs)) when invert_data, else int(np.argmin(xs)): the first
\* position (from 0) of the greatest, resp. least, element
ArgPeak(xs, invert_data) ==
  LET Before(x, y) == IF invert_data THEN x >= y ELSE x <= y
  IN CHOOSE k \in 0..(Len(xs) - 1) :
       /\ \A m \in 1..Len(xs) : Before(xs[k + 1], xs[m])
       /\ \A m \in 1..k : xs[m] # xs[k + 1]

\* ------------------------------------------------------------- apply_filter
buffer == 100

\* What scipy's filtfilt does in one call of apply_filter: it raises, or it
\* gives a float for every sample of its input: any of the values -1.5 and
\* 0.5 for an input of up to three samples, and for a longer input the
\* values 1.5, 2.5, ... that tell the positions apart.
FilterOutcomes(n) ==
  LET FilterVals == {-18, 6}
  IN {[fails |-> TRUE, out |-> <<>>]} \cup
     IF n <= 3
       THEN {[fails |-> FALSE, out |-> o] : o \in [1..n -> FilterVals]}
       ELSE {[fails |-> FALSE, out |-> [k \in 1..n |-> k * FScale + 6]]}

\* api.py 108-155: apply_filter(data, filter_type) returns the data for an
\* unknown filter type and when filtering raises, else the filtered values
apply_filter(data, filter_type, outcome) ==
  IF filter_type \notin {"highpass", "lowpass", "bandpass"} THEN data
  ELSE IF outcome.fails THEN data
  ELSE PySlice(outcome.out, 0, Len(data))

\* api.py 376-396 and 736-755: the filter runs over the window widened by
\* buffer samples on both sides; the window's part of the result is taken,
\* and for highpass and bandpass the mean of the window's samples is added.
\* The result is kept with the bounds of the widened window, the input of
\* the filter and what the filter did.
FilterWindow(row, channel_data, start_time, end_time, filter_type, outcome) ==
  LET total_available == Len(row)
      buffer_start == IF start_time - buffer > 0 THEN start_time - buffer
                      ELSE 0
      buffer_end == IF end_time + buffer < total_available
                      THEN end_time + buffer ELSE total_available
      buffered_data == PySlice(row, buffer_start, buffer_end)
      original_mean == Mean(channel_data)
      filtered_buffered ==
        apply_filter([k \in 1..Len(buffered_data) |->
                        buffered_data[k] * FScale],
                     filter_type, outcome)
      offset == start_time - buffer_start
      filtered_data == PySlice(filtered_buffered, offset,
                               offset + Len(channel_data))
  IN [values |->
        IF filter_type \in {"highpass", "bandpass"}
          THEN [k \in 1..Len(filtered_data) |->
                  filtered_data[k] + original_mean]
          ELSE filtered_data,
      buffer_start |-> buffer_start,
      buffer_end |-> buffer_end,
      buffered_data |-> buffered_data,
      outcome |-> outcome]

\* ------------------------------------------------------ threshold detection
\* api.py 411-417: is_spike
IsSpike(channel_data, spike_threshold, invert_data) ==
  [k \in 1..Len(channel_data) |->
     IF ~spike_threshold.given THEN FALSE
     ELSE IF invert_data THEN channel_data[k] >= spike_threshold.value
     ELSE channel_data[k] <= spike_threshold.value]

\* api.py 424-439: the loop over i = 0 .. len(is_spike) - 1 with its
\* variables in_spike, spike_start_idx and spike_peaks; the result is
\* spike_peaks
RECURSIVE PeakLoop(_, _, _, _, _, _, _)
PeakLoop(i, in_spike, spike_start_idx, spike_peaks, is_spike, channel_data, invert_data) ==
  IF i >= Len(is_spike) THEN spike_peaks
  ELSE IF is_spike[i + 1] /\ ~in_spike
    THEN PeakLoop(i + 1, TRUE, i, spike_peaks, is_spike, channel_data,
                  invert_data)
  ELSE IF (~is_spike[i + 1] \/ i = Len(is_spike) - 1) /\ in_spike
    THEN LET spike_end_idx == IF ~is_spike[i + 1] THEN i ELSE i + 1
             spike_segment == PySlice(channel_data, spike_start_idx,
                                      spike_end_idx)
             peak_idx == spike_start_idx +
                           ArgPeak(spike_segment, invert_data)
         IN PeakLoop(i + 1, FALSE, spike_start_idx,
                     IF Len(spike_segment) > 0
                       THEN Append(spike_peaks, peak_idx) ELSE spike_peaks,
                     is_spike, channel_data, invert_data)
  ELSE PeakLoop(i + 1, in_spike, spike_start_idx, spike_peaks, is_spike,
                channel_data, invert_data)

\* the loop that takes the greatest sample of a run, inverted or not
SpikePeaks_AlwaysArgMax(is_spike, channel_data, spike_threshold, invert_data) ==
  IF spike_threshold.given
    THEN PeakLoop(0, FALSE, 0, <<>>, is_spike, channel_data, TRUE)
    ELSE <<>>

\* api.py 419-439: spike_peaks
SpikePeaks(is_spike, channel_data, spike_threshold, invert_data) ==
  IF spike_threshold.given
    THEN PeakLoop(0, FALSE, 0, <<>>, is_spike, channel_data, invert_data)
    ELSE <<>>

\* ----------------------------------------------------- JobResult.filtered_map
\* A JobResult (jobs.py 17-26) with the fields filtered_map reads; filtered
\* is a 2-D array of floats, one row per entry of channels, or None.
JobResult(job_id, channels, start_time, end_time, filtered) ==
  [job_id |-> job_id, channels |-> channels, start_time |-> start_time,
   end_time |-> end_time, filtered |-> filtered]
NoResult == [job_id |-> UnknownId]

Range(xs) == {xs[k] : k \in 1..Len(xs)}
EmptyMap == [c \in {} |-> <<>>]

\* the slice of a filtered row without the job's start as its origin
FilteredSlice_Absolute(self, idx, start, end) ==
  PySlice(self.filtered.rows[idx], start, end)

\* jobs.py 43-44 and 48: self.filtered[idx, offset_start:offset_end]
FilteredSlice(self, idx, start, end) ==
  PySlice(self.filtered.rows[idx], start - self.start_time,
          end - self.start_time)

\* jobs.py 38-49: the loop assigns channel_map[channel] for idx in order, so
\* the last row of a channel is the one that stays
filtered_map(self, request_channels, start, end) ==
  IF self.filtered = NoArray THEN EmptyMap
  ELSE IF start < self.start_time \/ end > self.end_time THEN EmptyMap
  ELSE [channel \in Range(self.channels) \cap Range(request_channels) |->
          LET idx == CHOOSE k \in 1..Len(self.channels) :
                       /\ self.channels[k] = channel
                       /\ \A m \in (k + 1)..Len(self.channels) :
                            self.channels[m] # channel
          IN FilteredSlice(self, idx, start, end)]

\* ------------------------------------------------------------ _get_real_data
NoFiltered == [present |-> FALSE, values |-> <<>>]
Filtered(xs) == [present |-> TRUE, values |-> xs]

\* api.py 360: the rows that exist
ValidChannel(A, channel_id) ==
  ~(channel_id - 1 >= A.shape[1] \/ channel_id - 1 < 0)

\* api.py 363-454, one turn of the loop: the response entry of channel_id
\* and whether apply_filter was called for it
RealChannel(A, channel_id, spike_threshold, invert_data, start_time, end_time, data_type, filter_type, job_filtered_map, outcome) ==
  LET row == A.rows[channel_id]
      original_raw_data == PySlice(row, start_time, end_time)
      cached == channel_id \in DOMAIN job_filtered_map
      filters == ~cached /\ filter_type # "none"
      run == FilterWindow(row, original_raw_data, start_time, end_time,
                          filter_type, outcome)
      filtered_data ==
        IF cached THEN Filtered(job_filtered_map[channel_id])
        ELSE IF filters THEN Filtered(run.values)
        ELSE NoFiltered
      rounded == filtered_data.present /\ data_type = "spikes"
      channel_data == IF rounded THEN RoundAll(filtered_data.values)
                      ELSE original_raw_data
      shown == IF invert_data THEN Negate(channel_data, ~rounded)
               ELSE channel_data
      shown_filtered == IF invert_data /\ filtered_data.present
                          THEN Filtered(Negate(filtered_data.values, FALSE))
                          ELSE filtered_data
      is_spike == IsSpike(shown, spike_threshold, invert_data)
  IN [entry |->
        [data |-> shown,
         isSpike |-> is_spike,
         spikePeaks |-> SpikePeaks(is_spike, shown, spike_threshold,
                                   invert_data),
         channelId |-> channel_id,
         startTime |-> start_time,
         endTime |-> end_time,
         precomputed |-> FALSE,
         filteredData |->
           IF shown_filtered.present
             THEN Filtered(RoundAll(shown_filtered.values)) ELSE NoFiltered],
      filter_called |-> filters,
      filter_run |-> run]

\* api.py 348-350: the window clamped to the buffer
RealWindow(A, start_time, end_time) ==
  [start_time |-> IF start_time > 0 THEN start_time ELSE 0,
   end_time |-> IF end_time < A.shape[2] THEN end_time ELSE A.shape[2]]

\* api.py 342-456: None without a buffer, else the entries of the valid
\* channels; job_filtered_map and the channels the filter ran for are kept
\* beside the response
get_real_data(A, channels, spike_threshold, invert_data, start_time, end_time, data_type, filter_type, job_result, outcomes) ==
  IF A = NoArray
    THEN [kind |-> "null", data |-> EmptyMap, job_filtered_map |-> EmptyMap,
          filter_calls |-> {}, filter_runs |-> EmptyMap]
  ELSE
    LET w == RealWindow(A, start_time, end_time)
        job_filtered_map ==
          IF job_result # NoResult
            THEN filtered_map(job_result, channels, w.start_time, w.end_time)
            ELSE EmptyMap
        valid == {c \in Range(channels) : ValidChannel(A, c)}
        turn == [c \in valid |->
                   RealChannel(A, c, spike_threshold, invert_data,
                               w.start_time, w.end_time, data_type,
                               filter_type, job_filtered_map, outcomes[c])]
    IN [kind |-> "data",
        data |-> [c \in valid |-> turn[c].entry],
        job_filtered_map |-> job_filtered_map,
        filter_calls |-> {c \in valid : turn[c].filter_called},
        filter_runs |-> [c \in {c \in valid : turn[c].filter_called} |->
                           turn[c].filter_run]]

\* ------------------------------------------------ get_precomputed_spike_data
spike_window == 5

\* dict.get(key) of a per-channel label source whose keys are all ints or
\* all strings; key_type is the type of the key asked for
NoValue == [type |-> "None", times |-> <<>>]
DictGet(d, key_type, channel_id) ==
  IF d.keys = key_type /\ channel_id \in DOMAIN d.items
    THEN d.items[channel_id] ELSE NoValue

\* api.py 771-777: the labels of the channel inside the window, as offsets
\* from its start, in the order of the source
PrecomputedPeaks(S, channel_id, start_time, end_time) ==
  LET spike_times_list ==
        IF S.type = "ndarray" THEN S.times
        ELSE DictGet(S, "int", channel_id).times
      InWindow(t) == start_time <= t /\ t < end_time
      inside == SelectSeq(spike_times_list, InWindow)
  IN [k \in 1..Len(inside) |-> inside[k] - start_time]

\* api.py 779-784: every peak marks the samples up to spike_window away
Dilate(spike_peaks, n) ==
  [k \in 1..n |->
     \E p \in 1..Len(spike_peaks) :
       \E offset \in (-spike_window)..spike_window :
         spike_peaks[p] + offset = k - 1]

\* api.py 725-800, one turn of the loop
PrecomputedChannel(A, S, channel_id, start_time, end_time, filter_type, invert_data, data_type, outcome) ==
  LET row == A.rows[channel_id]
      original_raw_data == PySlice(row, start_time, end_time)
      filters == filter_type # "none"
      run == FilterWindow(row, original_raw_data, start_time, end_time,
                          filter_type, outcome)
      filtered_data_array ==
        IF filters THEN Filtered(run.values) ELSE NoFiltered
      rounded == filters /\ data_type = "spikes"
      channel_data == IF rounded THEN RoundAll(filtered_data_array.values)
                      ELSE original_raw_data
      shown == IF invert_data THEN Negate(channel_data, ~rounded)
               ELSE channel_data
      shown_filtered == IF invert_data /\ filters
                          THEN Filtered(Negate(filtered_data_array.values,
                                               FALSE))
                          ELSE filtered_data_array
      spike_peaks == PrecomputedPeaks(S, channel_id, start_time, end_time)
  IN [entry |->
        [data |-> shown,
         isSpike |-> Dilate(spike_peaks, Len(shown)),
         spikePeaks |-> spike_peaks,
         channelId |-> channel_id,
         startTime |-> start_time,
         endTime |-> end_time,
         precomputed |-> TRUE,
         filteredData |->
           IF shown_filtered.present /\ data_type = "filtered"
             THEN Filtered(RoundAll(shown_filtered.values)) ELSE NoFiltered],
      filter_called |-> filters,
      filter_run |-> run]

\* api.py 708-802
get_precomputed_spike_data(A, S, channels, start_time, end_time, filter_type, invert_data, data_type, outcomes) ==
  IF A = NoArray \/ S = NoSpikes
    THEN [kind |-> "null", data |-> EmptyMap, job_filtered_map |-> EmptyMap,
          filter_calls |-> {}, filter_runs |-> EmptyMap]
  ELSE
    LET valid == {c \in Range(channels) : ValidChannel(A, c)}
        turn == [c \in valid |->
                   PrecomputedChannel(A, S, c, start_time, end_time,
                                      filter_type, invert_data, data_type,
                                      outcomes[c])]
    IN [kind |-> "data",
        data |-> [c \in valid |-> turn[c].entry],
        job_filtered_map |-> EmptyMap,
        filter_calls |-> {c \in valid : turn[c].filter_called},
        filter_runs |-> [c \in {c \in valid : turn[c].filter_called} |->
                           turn[c].filter_run]]

\* --------------------------------------------------------- AlgorithmSpec.run
\* run whose merge lets the declared defaults win
run_DefaultsWin(self, data, params, outcome) ==
  IF ~self.available \/ ~self.runner
    THEN [raised |-> "AlgorithmUnavailable", calls |-> <<>>, data |-> data,
          parameters |-> self.parameters]
  ELSE
    LET effective_params ==
          IF params.given /\ DOMAIN params.dict # {}
            THEN [k \in DOMAIN self.parameters \cup DOMAIN params.dict |->
                    IF k \in DOMAIN self.parameters THEN self.parameters[k]
                    ELSE params.dict[k]]
            ELSE self.parameters
    IN [raised |-> IF outcome = "raises" THEN "raises" ELSE None,
        calls |-> <<[data |-> data, params |-> effective_params]>>,
        data |-> data,
        parameters |-> self.parameters]

\* algorithms.py 38-46: run(data, params) of a spec with the fields available,
\* runner (bound or not) and parameters.  It raises AlgorithmUnavailable
\* before anything else for a spec that is unavailable or has no runner;
\* else it copies the defaults, updates the copy with the caller's dict when
\* that is neither None nor empty, and calls the runner with the block and
\* the merged dict; what the runner raises passes through.  Kept are the
\* calls of the runner, the block and the spec's defaults after the call.
run(self, data, params, outcome) ==
  IF ~self.available \/ ~self.runner
    THEN [raised |-> "AlgorithmUnavailable", calls |-> <<>>, data |-> data,
          parameters |-> self.parameters]
  ELSE
    LET effective_params ==
          IF params.given /\ DOMAIN params.dict # {}
            THEN [k \in DOMAIN self.parameters \cup DOMAIN params.dict |->
                    IF k \in DOMAIN params.dict THEN params.dict[k]
                    ELSE self.parameters[k]]
            ELSE self.parameters
    IN [raised |-> IF outcome = "raises" THEN "raises" ELSE None,
        calls |-> <<[data |-> data, params |-> effective_params]>>,
        data |-> data,
        parameters |-> self.parameters]


\* ------------------------------------------------------------ navigate_spike
\* api.py 660: spike_times_data.get(channel_id) or
\* spike_times_data.get(str(channel_id)). The first value is tested for
\* truth: None and an empty list or array are false, an array of one element
\* is as true as that element, and an array of more elements raises
\* ValueError; the second value is taken as it is.
GetEitherKey(S, channel_id) ==
  LET first == DictGet(S, "int", channel_id)
      second == [raises |-> FALSE, value |-> DictGet(S, "str", channel_id)]
  IN IF first.type = "ndarray" /\ Len(first.times) > 1
       THEN [raises |-> TRUE, value |-> NoValue]
     ELSE IF first.type = "None" \/ first.times = <<>>
       THEN second
     ELSE IF first.type = "ndarray" /\ first.times[1] = 0
       THEN second
     ELSE [raises |-> FALSE, value |-> first]

\* api.py 641-706: the response of navigate_spike(current_time, direction,
\* channels) with its status code
navigate_spike(S, current_time, direction, channels) ==
  LET got == [k \in 1..Len(channels) |-> GetEitherKey(S, channels[k])]
      all_spikes ==
        IF S.type = "ndarray" THEN Range(S.times)
        ELSE UNION {Range(got[k].value.times) : k \in 1..Len(channels)}
      after == {t \in all_spikes : t > current_time}
      before == {t \in all_spikes : t < current_time}
      Least(T) == CHOOSE t \in T : \A u \in T : t <= u
      Greatest(T) == CHOOSE t \in T : \A u \in T : t >= u
  IN IF S = NoSpikes
       THEN [code |-> 400, error |-> "No spike times loaded"]
     ELSE IF S.type = "dict" /\ \E k \in 1..Len(channels) : got[k].raises
       THEN [code |-> 500, error |-> "ValueError"]
     ELSE IF all_spikes = {}
       THEN [code |-> 404, error |-> "No spikes found"]
     ELSE [code |-> 200,
           spikeTime |->
             IF direction = "next"
               THEN IF after # {} THEN Least(after) ELSE Least(all_spikes)
               ELSE IF before # {} THEN Greatest(before)
                    ELSE Greatest(all_spikes),
           totalSpikes |-> Cardinality(all_spikes)]

\* ------------------------------------------------------------ get_spike_data
max_points == 20000
NoJobId == -1
NoThreshold == [given |-> FALSE, value |-> 0]
Threshold(v) == [given |-> TRUE, value |-> v]

\* What job.result holds: the result of the whole window for both channels,
\* of a part of the window for one channel, and one without filtered data.
StoredResult(r) ==
  CASE r = "JobResult" ->
         JobResult(1, <<1, 2>>, 0, 3,
                   Array2(<<<<1206, 1218, 1230>>, <<2400, 2412, 2424>>>>, 3))
    [] r = "JobResult/2" ->
         JobResult(1, <<2>>, 1, 3, Array2(<<<<2412, 2424>>>>, 2))
    [] OTHER -> JobResult(1, <<1, 2>>, 0, 3, NoArray)

\* api.py 490-494: the result of the job of the request, if it is completed
JobResultOf(job_id) ==
  IF job_id # NoJobId /\ job_id \in table /\ status[job_id] = "completed"
     /\ result[job_id] # None
    THEN StoredResult(result[job_id]) ELSE NoResult

Client == "client"

\* api.py 476-517: get_spike_data, for the request in the locals of t
GetSpikeData(t) ==
  /\ pc[t] = "called"
  /\ loc[t].op = "get_spike_data"
  /\ LET req == loc[t]
         job_result == JobResultOf(req.jobId)
         end_time == IF req.endTime < req.startTime + max_points
                       THEN req.endTime ELSE req.startTime + max_points
         valid == IF data_array = NoArray THEN {}
                  ELSE {c \in Range(req.channels) :
                          ValidChannel(data_array, c)}
         n == IF data_array = NoArray \/ req.filterType = "none" THEN 0
              ELSE data_array.shape[2]
     IN \E outcomes \in [valid -> FilterOutcomes(n)] :
          ret' = [ret EXCEPT ![t] =
                   [op |-> "get_spike_data", req |-> req, code |-> 200,
                    val |->
                      IF req.usePrecomputed /\ spike_times_data # NoSpikes
                        THEN get_precomputed_spike_data(
                               data_array, spike_times_data, req.channels,
                               req.startTime, end_time, req.filterType,
                               req.invertData, req.dataType, outcomes)
                        ELSE get_real_data(
                               data_array, req.channels, req.spikeThreshold,
                               req.invertData, req.startTime, end_time,
                               req.dataType, req.filterType, job_result,
                               outcomes)]]
  /\ pc' = [pc EXCEPT ![t] = "idle"]
  /\ loc' = [loc EXCEPT ![t] = NoCall]
  /\ UNCHANGED managerVars
  /\ UNCHANGED storeVars

\* api.py 636-706: navigate_spike, for the request in the locals of t
NavigateSpike(t) ==
  /\ pc[t] = "called"
  /\ loc[t].op = "navigate_spike"
  /\ ret' = [ret EXCEPT ![t] =
              [op |-> "navigate_spike", req |-> loc[t],
               val |-> navigate_spike(spike_times_data, loc[t].currentTime,
                                      loc[t].direction, loc[t].channels)]]
  /\ pc' = [pc EXCEPT ![t] = "idle"]
  /\ loc' = [loc EXCEPT ![t] = NoCall]
  /\ UNCHANGED managerVars
  /\ UNCHANGED storeVars

\* jobs.py 38-49: filtered_map, for the call in the locals of t
FilteredMap(t) ==
  /\ pc[t] = "called"
  /\ loc[t].op = "filtered_map"
  /\ ret' = [ret EXCEPT ![t] =
              [op |-> "filtered_map", req |-> loc[t],
               val |-> filtered_map(loc[t].self, loc[t].request_channels,
                                    loc[t].start, loc[t].end)]]
  /\ pc' = [pc EXCEPT ![t] = "idle"]
  /\ loc' = [loc EXCEPT ![t] = NoCall]
  /\ UNCHANGED managerVars
  /\ UNCHANGED storeVars

\* jobs.py 144: spec.run(block, params), for the call in the locals of t; the
\* runner returns or raises
Run(t) ==
  /\ pc[t] = "called"
  /\ loc[t].op = "run"
  /\ \E outcome \in Outcomes :
       ret' = [ret EXCEPT ![t] =
                [op |-> "run", req |-> loc[t],
                 val |-> run(loc[t].self, loc[t].data, loc[t].params,
                             outcome)]]
  /\ pc' = [pc EXCEPT ![t] = "idle"]
  /\ loc' = [loc EXCEPT ![t] = NoCall]
  /\ UNCHANGED managerVars
  /\ UNCHANGED storeVars


\* ------------------------------------------------- the states of a request
\* The job table with no job (s = None) or with job 1 in status s and with
\* result r; the pool and the histories play no part in a window request and
\* are as after construction.
JobTable(s, r) ==
  /\ table = IF s = None THEN {} ELSE {1}
  /\ nextId = IF s = None THEN 1 ELSE 2
  /\ alg = [j \in JobIds |-> IF j = 1 /\ s # None THEN "filter" ELSE None]
  /\ status = [j \in JobIds |-> IF j = 1 THEN s ELSE None]
  /\ error = [j \in JobIds |-> IF j = 1 /\ s = "failed" THEN "raises"
                               ELSE None]
  /\ result = [j \in JobIds |-> IF j = 1 THEN r ELSE None]
  /\ jfuture = [j \in JobIds |-> FALSE]
  /\ fstate = [j \in JobIds |-> "NONE"]
  /\ callbacks = [j \in JobIds |-> FALSE]
  /\ queue = <<>>
  /\ lock = Free
  /\ ncancel = 0
  /\ provCalls = [j \in JobIds |-> 0]
  /\ runCalls = [j \in JobIds |-> 0]
  /\ execCount = [j \in JobIds |-> 0]
  /\ cancelled = {}

\* A request thread that has received the request call, with buffer A, label
\* source S and the job table of JobTable(s, r).
Called(A, S, s, r, call) ==
  /\ JobTable(s, r)
  /\ data_array = A
  /\ nrows = 385
  /\ current_dataset = "c46_data_5percent.pt"
  /\ spike_times_data = S
  /\ pc = [t \in {Client} |-> "called"]
  /\ loc = [t \in {Client} |-> call]
  /\ ret = [t \in {Client} |-> NoCall]

\* the JSON body of a request of /api/spike-data (api.py 479-488)
SpikeData(channels, spike_threshold, invert_data, w, use_precomputed, data_type, filter_type, job_id) ==
  [op |-> "get_spike_data", channels |-> channels,
   spikeThreshold |-> spike_threshold, invertData |-> invert_data,
   startTime |-> w[1], endTime |-> w[2], usePrecomputed |-> use_precomputed,
   dataType |-> data_type, filterType |-> filter_type, jobId |-> job_id]

\* --- threshold detection: one channel holding any signal of up to
\* MaxSamples samples
MaxSamples == 5
ThresholdCases ==
  LET SampleVals == {-32768, -9, -3, -2, 4, 5}
      Signals == UNION {[1..n -> SampleVals] : n \in 1..MaxSamples}
  IN \E sig \in Signals,
        thr \in {NoThreshold, Threshold(-1), Threshold(3)},
        inv \in BOOLEAN :
       Called(Array2(<<sig>>, Len(sig)), NoSpikes, None, None,
              SpikeData(<<1>>, thr, inv, <<0, Len(sig)>>, FALSE, "raw",
                        "none", NoJobId))

\* --- precomputed labels: two channels of twelve samples, and label sources
\* of both kinds (one array for all channels; a dict with int or with str
\* keys and with arrays or lists as values) with up to MaxLabels labels in
\* any order
LabelBuffer ==
  Array2([c \in 1..2 |-> [k \in 1..12 |-> 100 * c + k]], 12)
MaxLabels == 3
LabelSources ==
  LET LabelTimes == {0, 3, 10, 17}
      LabelLists == UNION {[1..n -> LabelTimes] : n \in 0..MaxLabels}
      Values == [type : {"ndarray", "list"},
                 times : {ts \in LabelLists : Len(ts) < MaxLabels}]
  IN {GlobalSpikes(ts) : ts \in LabelLists}
     \cup
     {ChannelSpikes(keys, items) :
        keys \in {"int", "str"},
        items \in
          {[c \in {1} |-> v] : v \in Values}
          \cup
          {[c \in {1, 2} |-> IF c = 1 THEN v ELSE w] :
             v \in Values,
             w \in {[type |-> "ndarray", times |-> <<10>>],
                    [type |-> "list", times |-> <<17, 3>>]}}}

LabelCases ==
  \E S \in LabelSources, channels \in {<<1>>, <<2, 1>>, <<3>>},
     w \in {<<0, 12>>, <<3, 11>>, <<0, 20>>} :
    Called(LabelBuffer, S, None, None,
           SpikeData(channels, NoThreshold, FALSE, w, TRUE, "raw", "none",
                     NoJobId))

\* --- cached job results: the buffer the stored results were computed
\* from, and job 1 in the statuses and with the results it can have
\* together (job.result is set at jobs.py 145, just before the status
\* becomes "completed" at 154)
JobBuffer == Array2(<<<<11, 12, 13>>, <<21, 22, 23>>>>, 3)

SpliceCases ==
  LET JobResultRefs == {"JobResult", "JobResult/2", "JobResult/raw"}
      JobSnapshots ==
        {<<None, None>>, <<"queued", None>>, <<"running", None>>,
         <<"failed", None>>, <<"cancelled", None>>}
        \cup {<<s, r>> : s \in {"running", "completed"},
                         r \in JobResultRefs}
  IN \E snap \in JobSnapshots, job_id \in {NoJobId, UnknownId, 1},
        S \in {NoSpikes, GlobalSpikes(<<1>>)},
        channels \in {<<1, 2>>, <<2, 3>>},
        w \in {<<0, 3>>, <<1, 3>>, <<0, 5>>},
        use_precomputed \in BOOLEAN,
        data_type \in {"raw", "filtered", "spikes"},
        filter_type \in {"none", "lowpass", "highpass"} :
       Called(JobBuffer, S, snap[1], snap[2],
              SpikeData(channels, NoThreshold, FALSE, w, use_precomputed,
                        data_type, filter_type, job_id))

\* --- filtering far from and near to the ends of a buffer longer than
\* twice the filter's margin, also for windows that reach outside the buffer
BufferCases ==
  \E w \in {<<0, 2>>, <<100, 102>>, <<105, 107>>, <<150, 210>>,
             <<208, 210>>, <<-1, 2>>, <<208, 215>>, <<215, 220>>},
     use_precomputed \in BOOLEAN,
     data_type \in {"filtered", "spikes"},
     filter_type \in {"lowpass", "highpass", "bandpass"} :
    Called(Array2(<<[k \in 1..210 |-> 1000 + k]>>, 210),
           GlobalSpikes(<<106>>), None, None,
           SpikeData(<<1>>, NoThreshold, FALSE, w, use_precomputed, data_type,
                     filter_type, NoJobId))

\* --- a window request after a dataset swap: job 1 ran on JobBuffer and is
\* completed, load_binary_data has then replaced the buffer (236-316 leaves
\* the job table alone), and the request still names job 1
SwapCases ==
  \E channels \in {<<1, 2>>, <<2>>}, w \in {<<0, 3>>, <<1, 3>>},
     S \in {NoSpikes, GlobalSpikes(<<1>>)}, use_precomputed \in BOOLEAN,
     data_type \in {"raw", "filtered", "spikes"},
     filter_type \in {"none", "lowpass"} :
    Called(Array2(<<<<31, 32, 33>>, <<41, 42, 43>>>>, 3), S, "completed",
           "JobResult",
           SpikeData(channels, NoThreshold, FALSE, w, use_precomputed,
                     data_type, filter_type, 1))

\* --- navigation over the same label sources
NavCases ==
  \E S \in LabelSources \cup {NoSpikes},
     current_time \in {0, 3, 10, 17, 20}, direction \in {"next", "prev"},
     channels \in {<<>>, <<1>>, <<2, 1>>, <<3>>} :
    Called(LabelBuffer, S, None, None,
           [op |-> "navigate_spike", currentTime |-> current_time,
            direction |-> direction, channels |-> channels])

\* --- filtered_map of job results, for windows of up to MaxWidth samples;
\* every value of a filtered block differs from the others
MaxWidth == 4
MapCases ==
  LET Windows == {w \in (0..MaxWidth) \X (0..MaxWidth) : w[1] < w[2]}
      FilteredBlock(channels, w) ==
        Array2([idx \in 1..Len(channels) |->
                  [k \in 1..(w[2] - w[1]) |->
                     (100 * channels[idx] + 10 * idx + w[1] + k - 1)
                       * FScale + 6]],
               w[2] - w[1])
  IN \E channels \in {<<1, 2>>, <<2, 1>>, <<2>>, <<1, 1>>},
        jw \in {<<0, 3>>, <<1, 3>>, <<1, 4>>}, has_filtered \in BOOLEAN,
        request_channels \in ChannelLists, w \in Windows :
       Called(JobBuffer, NoSpikes, "completed", "JobResult",
              [op |-> "filtered_map",
               self |-> JobResult(1, channels, jw[1], jw[2],
                                  IF has_filtered
                                    THEN FilteredBlock(channels, jw)
                                    ELSE NoArray),
               request_channels |-> request_channels,
               start |-> w[1], end |-> w[2]])

\* --- AlgorithmSpec.run: specs that are available or not, with or without a
\* runner, with any defaults over two keys, called with None or with any
\* dict over the same keys
RunCases ==
  LET Dicts == UNION {[K -> {1, 2}] : K \in SUBSET {"low", "high"}}
  IN \E available \in BOOLEAN, runner \in BOOLEAN, parameters \in Dicts,
        given \in BOOLEAN, dict \in Dicts :
       /\ ~given => dict = [k \in {} |-> 1]
       /\ Called(JobBuffer, NoSpikes, "running", None,
                 [op |-> "run",
                  self |-> [available |-> available, runner |-> runner,
                            parameters |-> parameters],
                  data |-> JobBuffer,
                  params |-> [given |-> given, dict |-> dict]])

\* ------------------------------------------- the requests' specification
\* One request is received and answered.
RequestInit ==
  \/ ThresholdCases
  \/ LabelCases
  \/ SpliceCases
  \/ BufferCases
  \/ SwapCases
  \/ NavCases
  \/ MapCases
  \/ RunCases
RequestNext ==
  \/ GetSpikeData(Client)
  \/ NavigateSpike(Client)
  \/ FilteredMap(Client)
  \/ Run(Client)
RequestSpec == RequestInit /\ [][RequestNext]_vars

\* ------------------------------------------------------------------- claims
\* C1: a job's status only moves forward: a completed, failed or cancelled
\* status never changes again, and a running job never shows queued again.
C1_StatusMonotonic ==
  [][\A j \in JobIds :
       /\ status[j] \in Terminal => status'[j] = status[j]
       /\ status[j] = "running" => status'[j] # "queued"]_vars

\* C2: once cancel_job(id) has returned True, the job's status is cancelled
\* and stays so, and no result is ever stored on the job.
C2_CancelledStaysCancelled ==
  \A j \in cancelled : status[j] = "cancelled" /\ result[j] = None

\* C3: a job whose future was cancelled while it was queued and not picked up
\* (the future is in a cancelled state) gets status cancelled and cancel_job
\* returns True for it, once the threads have run as far as they can; its
\* data provider and runner are never invoked.
C3_QueuedCancelSucceeds ==
  \A j \in JobIds :
    fstate[j] \in {"CANCELLED", "CANCELLED_AND_NOTIFIED"} =>
      /\ provCalls[j] = 0 /\ runCalls[j] = 0
      /\ Quiescent => status[j] = "cancelled" /\ j \in cancelled

\* C4: cancel_job on a job whose status is completed or failed, or on an
\* unknown id, returns False and leaves the jobs as they are.
C4_RefusedCancelChangesNothing ==
  [][\A c \in Cancellers :
       LET j == IF pc'[c] = "idle" THEN ret'[c].job ELSE loc'[c].job IN
         /\ pc[c] = "idle"
         /\ ncancel' # ncancel
         /\ j \notin table \/ status[j] \in {"completed", "failed"}
         => /\ pc'[c] = "idle"
            /\ ret'[c].op = "cancel_job"
            /\ ret'[c].val = FALSE
            /\ UNCHANGED <<table, jobVars, jfuture, fstate, callbacks,
                           queue>>]_vars

\* cancel_job has returned False for a completed job that keeps its result
C4_Witness ==
  \E c \in Cancellers :
    /\ ret[c].op = "cancel_job"
    /\ ret[c].seen = "completed"
    /\ ret[c].val = FALSE
    /\ status[ret[c].job] = "completed"
    /\ result[ret[c].job] = "JobResult"

\* C5: cancel_job returns False for a job in any terminal state, a job that
\* is already cancelled included.
C5_TerminalCancelReturnsFalse ==
  \A c \in Cancellers :
    ret[c].op = "cancel_job" /\ ret[c].seen \in Terminal
      => ret[c].val = FALSE

\* C6: start_job with a name that is not registered, or is registered as not
\* available, raises (KeyError, resp. AlgorithmUnavailable) and changes
\* nothing; a job is only ever created for a registered, available algorithm.
C6_RejectedStartHasNoEffect ==
  [][\A c \in Submitters :
       /\ nextId' # nextId
          => /\ alg'[nextId] \in Registered
             /\ Registry[alg'[nextId]].available
       /\ pc[c] = "idle" /\ pc'[c] = "idle" /\ ret'[c] # ret[c]
          => /\ ret'[c].op = "start_job"
             /\ \/ ret'[c].alg \notin Registered /\ ret'[c].val = "KeyError"
                \/ /\ ret'[c].alg \in Registered
                   /\ ~Registry[ret'[c].alg].available
                   /\ ret'[c].val = "AlgorithmUnavailable"
             /\ UNCHANGED <<table, nextId, jobVars, jfuture, fstate,
                            callbacks, queue, lock, histVars>>]_vars

\* start_job has raised AlgorithmUnavailable while another job is in the
\* table
C6_Witness ==
  \E c \in Submitters :
    /\ ret[c].op = "start_job"
    /\ ret[c].val = "AlgorithmUnavailable"
    /\ table # {}
    /\ queue = <<>>

\* C7: every job put in the table by start_job reaches completed, failed or
\* cancelled: when the threads have run as far as they can, no job of the
\* table is left queued or running.
C7_EveryJobTerminates ==
  Quiescent => \A j \in table : status[j] \in Terminal

\* C8 (as claimed): when start_job returns a job, the job's status is queued.
C8_ReturnedJobIsQueued ==
  \A c \in Submitters :
    ret[c].op = "start_job" /\ ret[c].job \in JobIds => ret[c].val = "queued"

\* C8 (amended): start_job creates the job and puts it in the table with
\* status queued, and the status becomes running only by line 140 of the
\* worker that has picked the job up.
C8_QueuedUntilPickedUp ==
  [][\A j \in JobIds :
       /\ status[j] = None /\ status'[j] # None
          => status'[j] = "queued" /\ j \in table'
       /\ status[j] # "running" /\ status'[j] = "running"
          => \E w \in Workers :
               /\ pc[w] = "L140" /\ pc'[w] = "L143"
               /\ loc[w].job = j
               /\ fstate[j] = "RUNNING"]_vars

\* start_job returns a job that a worker has already set running
C8_Witness ==
  \E c \in Submitters :
    /\ ret[c].op = "start_job"
    /\ ret[c].job \in JobIds
    /\ ret[c].val = "running"

\* C9: a job whose data provider or runner raised (its error is recorded)
\* has status failed, the error message and no result.
C9_RaisingJobEndsFailed ==
  \A j \in JobIds :
    error[j] # None => status[j] = "failed" /\ result[j] = None

\* C10: _execute_job runs at most once per job, and the status, result and
\* error of a job are written only by the one worker that executes it, or
\* (the status only) by cancel_job.
C10_SingleWriter ==
  [][\A j \in JobIds :
       /\ execCount'[j] <= 1
       /\ /\ status[j] # None
          /\ <<status[j], result[j], error[j]>>
               # <<status'[j], result'[j], error'[j]>>
          => \/ \E w \in Workers :
                  /\ Executing(w, j)
                  /\ pc'[w] # pc[w]
                  /\ \A v \in Workers \ {w} : ~Executing(v, j)
             \/ \E c \in Cancellers :
                  /\ pc[c] \in {"L189", "L192"} /\ pc'[c] = "idle"
                  /\ loc[c].job = j
                  /\ status'[j] = "cancelled"
                  /\ result'[j] = result[j] /\ error'[j] = error[j]]_vars

\* two workers execute two different jobs at the same time, each having
\* written its own job's status
C10_Witness ==
  \E w, v \in Workers :
    /\ w # v
    /\ loc[w].job # loc[v].job
    /\ Executing(w, loc[w].job) /\ Executing(v, loc[v].job)
    /\ status[loc[w].job] = "running" /\ status[loc[v].job] = "failed"

\* ---------------------------------------------------- claims: the data store
\* The ids of channels that lie in [1, n], in the order given
ValidIds(channels, n) ==
  LET InRange(c) == 1 <= c /\ c <= n IN SelectSeq(channels, InRange)

\* The block of the channels valid of the 2-D array A, columns [start, end)
BlockOf(A, valid, start, end) ==
  Array2([k \in 1..Len(valid) |-> PySlice(A.rows[valid[k]], start, end)],
         IF valid = <<>> THEN (IF end > start THEN end - start ELSE 0)
         ELSE Len(PySlice(A.rows[1], start, end)))

\* What extract_data_block is to give for the buffer A
ExpectedExtract(A, channels, start, end) ==
  IF A = NoArray THEN Raised("ValueError: Data not loaded")
  ELSE IF ValidIds(channels, A.shape[1]) = <<>>
    THEN Returned(<<>>, BlockOf(A, <<>>, start, end))
  ELSE IF A.ndim # 2 THEN Raised("IndexError")
  ELSE Returned(ValidIds(channels, A.shape[1]),
                BlockOf(A, ValidIds(channels, A.shape[1]), start, end))

\* The reader's call of extract_data_block returns in this step
ExtractReturns ==
  /\ ret'[Reader] # ret[Reader]
  /\ ret'[Reader].op = "extract_data_block"

RestingBuffers ==
  {NoArray, MmapArray("m.pt"), TorchLoad("a.pt").array,
   Transpose(TorchLoad("b.pt").array),
   ReshapeT(BinaryFlat("c.bin"), binary_nrows), TorchLoad("v.pt").array}

\* C14: with load_binary_data running at the same time, what
\* extract_data_block returns is taken from one buffer: the valid ids and
\* every row are those of one dataset, never a mix and never an array that
\* is not yet transposed.
C14_ReaderSeesOneDataset ==
  ret[Reader].op = "extract_data_block" =>
    \E A \in RestingBuffers :
      ret[Reader].val = ExpectedExtract(A, ret[Reader].channels,
                                        ret[Reader].start, ret[Reader].end)

\* C15: after load_binary_data(D) has returned the array, spike_times_data is
\* None or the labels mapped to D, never those of the dataset before.
C15_NoStaleLabels ==
  ret[Loader].op = "load_binary_data" /\ ret[Loader].val = "data_array" =>
    \/ spike_times_data = NoSpikes
    \/ /\ get_label_filename(ret[Loader].filename) # None
       /\ spike_times_data =
            LoadLabels(get_label_filename(ret[Loader].filename)).data

\* the binary dataset, whose label file cannot be read, has been loaded
\* while labels were active, and no labels are active now
C15_Witness ==
  /\ ret[Loader].op = "load_binary_data"
  /\ ret[Loader].val = "data_array"
  /\ ret[Loader].filename = "c.bin"
  /\ ret[Loader].seen # NoSpikes
  /\ spike_times_data = NoSpikes

\* ------------------------------------------------ claims: window requests
\* C11: filtered_map(requestChannels, start, end) is the empty map when the
\* result has no filtered data or the window is not inside the job's window;
\* otherwise it has one entry for every job channel that is requested and no
\* other, and the entry of channel c is a row of c in the filtered block
\* from column start - jobStart up to, not including, end - jobStart.
C11_FilteredMapContract ==
  LET r == ret[Client] IN
    r.op = "filtered_map" =>
      LET self == r.req.self
          from == r.req.start - self.start_time
          upto == r.req.end - self.start_time
      IN IF \/ self.filtered = NoArray
            \/ r.req.start < self.start_time
            \/ r.req.end > self.end_time
           THEN r.val = EmptyMap
           ELSE /\ DOMAIN r.val = Range(self.channels)
                                    \cap Range(r.req.request_channels)
                /\ \A c \in DOMAIN r.val :
                     \E idx \in 1..Len(self.channels) :
                       /\ self.channels[idx] = c
                       /\ Len(r.val[c]) = upto - from
                       /\ \A k \in 1..(upto - from) :
                            r.val[c][k] = self.filtered.rows[idx][from + k]

\* a job over channels 2 and 1 from sample 1 is asked for channels 3 and 2
\* from sample 2: the answer is the second column of the row of channel 2
C11_Witness ==
  LET r == ret[Client] IN
    /\ r.op = "filtered_map"
    /\ r.req.self.channels = <<2, 1>>
    /\ r.req.self.start_time = 1
    /\ r.req.self.filtered # NoArray
    /\ r.req.request_channels = <<3, 2>>
    /\ r.req.start = 2
    /\ r.req.end = 3
    /\ DOMAIN r.val = {2}
    /\ r.val[2] = <<r.req.self.filtered.rows[1][2]>>

\* the entries of a window response made by the threshold strategy
\* (precomputed = FALSE) or from the precomputed labels (TRUE)
Entries(precomputed) ==
  LET r == ret[Client] IN
    IF r.op = "get_spike_data"
      THEN {e \in {r.val.data[c] : c \in DOMAIN r.val.data} :
              e.precomputed = precomputed}
      ELSE {}

\* the positions a and b of is_spike lie in one run of true values
SameRun(is_spike, a, b) ==
  \A m \in 1..Len(is_spike) :
    ((a <= m /\ m <= b) \/ (b <= m /\ m <= a)) => is_spike[m]

\* the positions at which a maximal run of true values begins
RunStarts(is_spike) ==
  {i \in 1..Len(is_spike) : is_spike[i] /\ (i = 1 \/ ~is_spike[i - 1])}

C17_ThresholdComplete ==
  \A e \in Entries(FALSE) :
    IF ret[Client].req.spikeThreshold.given
      THEN /\ \A s \in RunStarts(e.isSpike) :
                Cardinality({j \in 1..Len(e.spikePeaks) :
                               SameRun(e.isSpike, s, e.spikePeaks[j] + 1)})
                  = 1
           /\ Len(e.spikePeaks) = Cardinality(RunStarts(e.isSpike))
      ELSE /\ \A i \in 1..Len(e.isSpike) : ~e.isSpike[i]
           /\ e.spikePeaks = <<>>

\* the labels of channel c in the label source S, whatever the type of the
\* keys of a per-channel source
ChannelLabels(S, c) ==
  IF S.type = "ndarray" THEN S.times
  ELSE IF c \in DOMAIN S.items THEN S.items[c].times
  ELSE <<>>

\* C18: in a response made from the precomputed labels, spikePeaks of a
\* channel is the list of t - windowStart for the labels t of that channel
\* with windowStart <= t < windowEnd, and isSpike[i] is true exactly for the
\* positions i of the window that are at most 5 away from a peak.
C18_PrecomputedPeaks ==
  \A e \in Entries(TRUE) :
    LET req == ret[Client].req
        InWindow(t) == req.startTime <= t /\ t < req.endTime
        labels == SelectSeq(ChannelLabels(spike_times_data, e.channelId),
                            InWindow)
    IN /\ Len(e.spikePeaks) = Len(labels)
       /\ \A k \in 1..Len(labels) :
            e.spikePeaks[k] = labels[k] - req.startTime
       /\ Len(e.isSpike) = Len(e.data)
       /\ \A i \in 1..Len(e.isSpike) :
            e.isSpike[i] <=>
              \E k \in 1..Len(e.spikePeaks) :
                /\ e.spikePeaks[k] - (i - 1) <= 5
                /\ (i - 1) - e.spikePeaks[k] <= 5

\* C19: in every response, of either strategy, the peaks of every channel
\* are in ascending order and stand under their own channel.
C19_PeaksAscending ==
  LET r == ret[Client] IN
    r.op = "get_spike_data" =>
      \A c \in DOMAIN r.val.data :
        /\ r.val.data[c].channelId = c
        /\ \A j, k \in 1..Len(r.val.data[c].spikePeaks) :
             j < k => r.val.data[c].spikePeaks[j]
                        <= r.val.data[c].spikePeaks[k]

\* the spike times of the label source S for the channels, as a set
SpikeTimes(S, channels) ==
  IF S.type = "ndarray" THEN Range(S.times)
  ELSE UNION {Range(ChannelLabels(S, channels[k])) : k \in 1..Len(channels)}

\* C20: navigation without a label source fails with "no spike times
\* loaded"; with no spike time for the channels it fails with "no spikes
\* found"; else "next" gives the least spike time above currentTime, or the
\* least of all if there is none, and "prev" the greatest below it, or the
\* greatest of all.
C20_Navigation ==
  LET r == ret[Client] IN
    r.op = "navigate_spike" =>
      LET S == SpikeTimes(spike_times_data, r.req.channels)
          after == {t \in S : t > r.req.currentTime}
          before == {t \in S : t < r.req.currentTime}
          Least(T) == CHOOSE t \in T : \A u \in T : t <= u
          Greatest(T) == CHOOSE t \in T : \A u \in T : t >= u
      IN IF spike_times_data = NoSpikes
           THEN r.val = [code |-> 400, error |-> "No spike times loaded"]
         ELSE IF S = {}
           THEN r.val = [code |-> 404, error |-> "No spikes found"]
         ELSE /\ r.val.code = 200
              /\ r.val.spikeTime =
                   IF r.req.direction = "next"
                     THEN IF after # {} THEN Least(after) ELSE Least(S)
                     ELSE IF before # {} THEN Greatest(before)
                          ELSE Greatest(S)

\* C12: in a response to a request with a jobId, cached values are taken
\* only from a job that is completed; for every valid requested channel that
\* the completed job's result covers, the window being inside the job's
\* window, filteredData is the job's cached values for the window (as
\* integers, like all filtered values of a response) and the filter is not
\* run; for every other valid requested channel the requested filter is run.
C12_CachedValuesPreempt ==
  LET r == ret[Client] IN
    (r.op = "get_spike_data" /\ r.req.jobId # NoJobId) =>
      LET j == r.req.jobId
          completed == j \in table /\ status[j] = "completed"
          R == IF completed /\ result[j] # None
                 THEN StoredResult(result[j]) ELSE NoResult
          from == IF r.req.startTime > 0 THEN r.req.startTime ELSE 0
          upto == IF r.req.endTime < data_array.shape[2]
                    THEN r.req.endTime ELSE data_array.shape[2]
          Covered(c) ==
            /\ R # NoResult
            /\ R.filtered # NoArray
            /\ c \in Range(R.channels)
            /\ R.start_time <= from
            /\ upto <= R.end_time
          Cached(c) ==
            LET idx == CHOOSE k \in 1..Len(R.channels) : R.channels[k] = c
            IN [k \in 1..(upto - from) |->
                  R.filtered.rows[idx][from - R.start_time + k]]
      IN /\ r.val.job_filtered_map # EmptyMap => completed
         /\ \A c \in DOMAIN r.val.data :
              IF Covered(c)
                THEN /\ c \notin r.val.filter_calls
                     /\ r.val.data[c].filteredData
                          = Filtered(RoundAll(Cached(c)))
                ELSE r.req.filterType # "none" => c \in r.val.filter_calls

\* C21: in every window response, of either strategy, the window that the
\* samples are sliced by and the peak offsets are counted from lies inside
\* the buffer, 0 <= start <= end <= totalSamples, spans at most 20000
\* samples, and every peak is a position of the returned samples.
C21_WindowClamped ==
  \A e \in Entries(TRUE) \cup Entries(FALSE) :
    /\ 0 <= e.startTime
    /\ e.startTime <= e.endTime
    /\ e.endTime <= data_array.shape[2]
    /\ e.endTime - e.startTime <= max_points
    /\ \A k \in 1..Len(e.spikePeaks) :
         0 <= e.spikePeaks[k] /\ e.spikePeaks[k] < Len(e.data)

\* the runs of the filter made for a window response, by channel
FilterRuns ==
  IF ret[Client].op = "get_spike_data" THEN ret[Client].val.filter_runs
  ELSE EmptyMap

\* C22: when the filter fails for a window, the request succeeds and the
\* filtered values returned for the window are the raw samples of the
\* window, for every filter kind.
C22_FilterFallback ==
  \A c \in DOMAIN FilterRuns :
    LET r == ret[Client]
        e == r.val.data[c]
        shown == IF r.req.dataType = "spikes" THEN Filtered(e.data)
                 ELSE e.filteredData
        raw == PySlice(data_array.rows[c], e.startTime, e.endTime)
    IN FilterRuns[c].outcome.fails =>
         /\ r.code = 200
         /\ shown.present => shown.values = raw

\* C25: a filter other than "none" is run over the samples from
\* max(0, start - 100) up to, not including, min(totalSamples, end + 100) of
\* the channel, and the filtered values returned are those of positions
\* start up to end of that filtered buffer (with the window's mean added for
\* highpass and bandpass): there are end - start of them and the i-th
\* belongs to sample start + i.
C25_FilterBuffer ==
  \A c \in DOMAIN FilterRuns :
    LET r == ret[Client]
        e == r.val.data[c]
        filter_run == FilterRuns[c]
        row == data_array.rows[c]
        from == IF e.startTime - 100 > 0 THEN e.startTime - 100 ELSE 0
        upto == IF e.endTime + 100 < Len(row) THEN e.endTime + 100
                ELSE Len(row)
        shown == IF r.req.dataType = "spikes" THEN Filtered(e.data)
                 ELSE e.filteredData
        mean == IF r.req.filterType \in {"highpass", "bandpass"}
                  THEN Mean([k \in 1..(e.endTime - e.startTime) |->
                               row[e.startTime + k]])
                  ELSE 0
        \* the filtered value of the sample at position p of the row
        At(p) == IF filter_run.outcome.fails THEN row[p + 1] * FScale
                 ELSE filter_run.outcome.out[p - from + 1]
    IN /\ filter_run.buffer_start = from
       /\ filter_run.buffer_end = upto
       /\ filter_run.buffered_data = [k \in 1..(upto - from) |-> row[from + k]]
       /\ shown.present =>
            /\ Len(shown.values) = e.endTime - e.startTime
            /\ \A i \in 0..(e.endTime - e.startTime - 1) :
                 shown.values[i + 1]
                   = RoundAll(<<At(e.startTime + i) + mean>>)[1]

\* ------------------------------------------- claims: the job manager, again
\* C24: a thread that is about to call the data provider (jobs.py 143) or
\* the runner (144) does not hold the job-table lock, and the lock is held
\* only by a request thread inside cancel_job or inside the done-callback
\* that cancel_job invoked, none of which waits for a runner.
C24_LockNotHeldWhileRunning ==
  /\ \A t \in Threads : pc[t] \in {"L143", "L144"} => lock # t
  /\ \A t \in Threads :
       lock = t => /\ t \in Callers
                   /\ pc[t] \in {"L186", "L187", "L189", "L192", "L165"}

\* a worker is about to call the runner while a canceller holds the lock
C24_Witness ==
  \E w \in Workers, c \in Callers : pc[w] = "L144" /\ lock = c

\* C27: the job manager is deadlock-free: the thread that holds the
\* job-table lock can always take its next step, so that it releases the
\* lock and no thread waits for the lock for ever.
C27_DeadlockFree ==
  \A c \in Callers : lock = c => ENABLED CallerStep(c)

\* C28: in every state, a job whose status is completed has its result and
\* no error, and a job whose status is failed has its error message and no
\* result.
C28_PayloadBeforeStatus ==
  \A j \in table :
    /\ status[j] = "completed" => result[j] # None /\ error[j] = None
    /\ status[j] = "failed" => error[j] # None /\ result[j] = None

\* C26 (the result of a terminal job): once a job is completed, failed or
\* cancelled, its result is not written again.
C26_TerminalResultKept ==
  [][\A j \in JobIds : status[j] \in Terminal => result'[j] = result[j]]_vars

\* ----------------------------------------------- claims: the store, again
\* C29: whenever load_binary_data has returned None, the active buffer, the
\* channel count, the current dataset name and the active spike source are
\* what they were before the call.
C29_FailedLoadKeepsStore ==
  \A t \in StoreThreads :
    (ret[t].op = "load_binary_data" /\ ret[t].val = "None")
      => storeVars = ret[t].before

\* ------------------------------------------ claims: window requests, again
\* C30: a window response that holds filtered values taken from a job result
\* is built while the active buffer is the one the job ran on (the jobs of
\* the table ran on JobBuffer): after a dataset swap the results of earlier
\* jobs are not spliced into the responses for the new dataset.
C30_NoStaleSplice ==
  LET r == ret[Client] IN
    (/\ r.op = "get_spike_data"
     /\ \E c \in DOMAIN r.val.data : c \in DOMAIN r.val.job_filtered_map)
      => data_array = JobBuffer

\* ------------------------------------------------ claims: AlgorithmSpec.run
\* C23: run of a spec that is not available or has no runner raises
\* AlgorithmUnavailable, does not call the runner and leaves the block as it
\* is; run of any other spec calls the runner exactly once, with the block
\* and with the declared defaults overridden by the caller's keys; in both
\* cases the spec's declared defaults are what they were.
C23_RunContract ==
  LET r == ret[Client] IN
    r.op = "run" =>
      LET self == r.req.self
          caller == IF r.req.params.given THEN r.req.params.dict
                    ELSE [k \in {} |-> 1]
      IN /\ IF ~self.available \/ ~self.runner
              THEN /\ r.val.raised = "AlgorithmUnavailable"
                   /\ r.val.calls = <<>>
              ELSE /\ Len(r.val.calls) = 1
                   /\ r.val.calls[1].data = r.req.data
                   /\ DOMAIN r.val.calls[1].params
                        = DOMAIN self.parameters \cup DOMAIN caller
                   /\ \A k \in DOMAIN r.val.calls[1].params :
                        r.val.calls[1].params[k]
                          = IF k \in DOMAIN caller THEN caller[k]
                            ELSE self.parameters[k]
         /\ r.val.data = r.req.data
         /\ DOMAIN r.val.parameters = DOMAIN self.parameters
         /\ \A k \in DOMAIN self.parameters :
              r.val.parameters[k] = self.parameters[k]

\* the defaults {low: 1, high: 2} are called with {low: 2}: the runner gets
\* {low: 2, high: 2}
C23_Witness ==
  LET r == ret[Client] IN
    /\ r.op = "run"
    /\ r.req.self.available
    /\ r.req.self.runner
    /\ DOMAIN r.req.self.parameters = {"low", "high"}
    /\ r.req.self.parameters["low"] = 1
    /\ r.req.self.parameters["high"] = 2
    /\ r.req.params.given
    /\ DOMAIN r.req.params.dict = {"low"}
    /\ r.req.params.dict["low"] = 2
    /\ Len(r.val.calls) = 1
    /\ r.val.calls[1].params["low"] = 2
    /\ r.val.calls[1].params["high"] = 2

====
